---- MODULE Spec2Model ----
(***************************************************************************)
(* State-machine models of the code examples of the repository.  The       *)
(* examples are independent programs, so each has its own variables, its   *)
(* own actions and its own specification; an action of one example leaves  *)
(* the variables of the others unchanged.                                  *)
(*                                                                         *)
(*  SpecOnce    the sync.Once singleton        (Singleton в Golang.md 2.2) *)
(*  SpecApple   the unsynchronised singleton   (Patterns_programming.go)   *)
(*  SpecChan    the channel-based NewsAgency   (Observer в Golang.md 2.2)  *)
(*  SpecSql     the database/sql transactions  (Транзакции в PostgreSQL.md)*)
(*  SpecGorm    the GORM transferMoney         (GORM (ORM).md 7)           *)
(*  SpecWs      the WebSocket echo handler     (http_https.md)             *)
(*  SpecObs     the synchronous NewsAgency     (Observer в Golang.md 2.1)  *)
(*  SpecNotif   the NotificationService        (Observer в Golang.md 5.1)  *)
(*  SpecBuilder the validating UserBuilder     (Builder в Golang.md 2.2)   *)
(*  SpecRest    the in-memory REST API         (part_003)                  *)
(*  SpecCache   the CacheDecorator             (Observer в Golang.md)      *)
(*  SpecProxy   the ImageProxy                 (part_001)                  *)
(*  SpecSort    the sorting strategies         (part_006)                  *)
(*  SpecKid     the chain of responsibility    (Patterns_programming.go)   *)
(*  SpecDefer   defer and named results        (defer/...return в Golang.md)*)
(*  SpecCfg     the configurable sort strategies (part_006, 2.2)         *)
(*  SpecDb      the gorm.DB singleton          (Singleton в Golang.md 5.2) *)
(*  SpecReq     the RequestBuilder             (Builder в Golang.md 5.1)   *)
(*                                                                         *)
(*  SpecChanLive and SpecKidLive add weak fairness to SpecChan and SpecKid; *)
(*  SpecSqlSeeded runs transferMoneyWithCheck on a table that holds an      *)
(*  account for each user.                                                  *)
(***************************************************************************)
EXTENDS Integers, Sequences, FiniteSets, TLC

VARIABLES
    \* ---- sync.Once singleton
    instance,      \* var instance *Config: 0 is nil, n > 0 the n-th allocated Config
    onceDone,      \* once.done (0 or 1)
    onceM,         \* once.m: 0 unlocked, else the goroutine holding it
    oncePc,        \* position of each goroutine inside GetInstance
    onceRet,       \* the pointers each goroutine's finished calls returned
    onceCalls,     \* calls each goroutine has begun
    onceInits,     \* how many times the initialisation body has run
    \* ---- unsynchronised lazy singleton
    oneApple,      \* var oneApple *BigApple: 0 is nil, n > 0 the n-th allocation
    applePc,       \* position of each goroutine inside GetBigApple
    appleSeen,     \* the last value of oneApple each goroutine wrote or read
    appleRet,      \* the pointers each goroutine's finished calls returned
    appleCalls,    \* calls each goroutine has begun
    appleMade,     \* how many BigApple values have been allocated
    \* ---- channel-based NewsAgency
    subscribers,   \* n.subscribers: the items buffered in the channel, oldest first
    chanClosed,    \* whether close(n.subscribers) has been executed
    chanNews,      \* n.news
    listenPc,      \* the goroutine started by NewNewsAgency: "running" or "exited"
    subPc,         \* per callback: "none", or its Subscribe goroutine "running"/"exited"
    subGot,        \* per callback: the items observer(news) was called with, in order
    subSince,      \* per callback: how many items had been published when it subscribed
    listenGot,     \* how many items the listen goroutine has taken
    published,     \* the items SetNews has sent, in order
    chanPanic,     \* "none", or the run-time panic that ended the program
    \* ---- database/sql transactions on the accounts table
    accounts,      \* the committed rows: id -> [user_id, balance], or NoRow
    nextId,        \* the next value of the SERIAL sequence of accounts.id
    rowLock,       \* the row-level lock of each row: NoTx, or the transaction holding it
    txPc,          \* position of each connection's running function
    txFn,          \* the function it runs
    txArg,         \* its arguments
    txErr,         \* its variable err
    txDelta,       \* the uncommitted balance changes of its transaction, per row
    txInsert,      \* the uncommitted inserted row of its transaction, or NoRow
    txRollbacks,   \* how many times the call has called tx.Rollback()
    txCommitted,   \* whether the call's tx.Commit() succeeded
    txEffect,      \* the net balance change per user_id the call has committed
    txRet,         \* the error the call returned
    sqlCalls,      \* calls begun so far
    \* ---- GORM transferMoney
    gormUsers,     \* the committed users rows: id -> <<Balance>>, or Absent
    gormPc,        \* position inside transferMoney
    gormArg,       \* fromID, toID, amount
    gormFrom,      \* fromUser.Balance
    gormTo,        \* toUser.Balance
    gormSaved,     \* the uncommitted rows written by tx.Save: id -> <<Balance>>, or Absent
    gormOps,       \* the tx.First and tx.Save calls of this call that succeeded, in order
    gormFailed,    \* the tx.First or tx.Save call that returned an error, or "none"
    gormErr,       \* the error that call returned
    gormPanic,     \* whether a panic is unwinding the call or was recovered in it
    gormRollbacks, \* how many times this call has called tx.Rollback()
    gormCommits,   \* how many times this call has called tx.Commit()
    gormCommitted, \* whether this call's tx.Commit() succeeded
    gormRet,       \* the error the call returned
    gormCalls,     \* calls begun so far
    \* ---- WebSocket echo handler
    wsPc,          \* position inside handleConnection
    wsMsg,         \* messageType and msg of the last ReadMessage
    wsReads,       \* the messages ReadMessage has returned, in order
    wsWrites,      \* the messages WriteMessage has been called with, in order
    wsSent,        \* the messages WriteMessage has put on the connection, in order
    wsReadErr,     \* whether ReadMessage has returned an error
    wsClosed,      \* whether conn.Close() has run
    \* ---- synchronous NewsAgency
    observers,     \* n.observers
    agencyNews,    \* n.news
    lastOp,        \* the last method called on the agency and its argument
    updates,       \* the Update calls that method made, in order: [observer, news]
    removed        \* the observers whose last AddObserver/RemoveObserver call was a
                   \* RemoveObserver, with the number of times each was registered then

onceVars  == <<instance, onceDone, onceM, oncePc, onceRet, onceCalls, onceInits>>
appleVars == <<oneApple, applePc, appleSeen, appleRet, appleCalls, appleMade>>
chanVars  == <<subscribers, chanClosed, chanNews, listenPc, subPc, subGot, subSince,
               listenGot, published, chanPanic>>
sqlVars   == <<accounts, nextId, rowLock, txPc, txFn, txArg, txErr, txDelta, txInsert,
               txRollbacks, txCommitted, txEffect, txRet, sqlCalls>>
gormVars  == <<gormUsers, gormPc, gormArg, gormFrom, gormTo, gormSaved, gormOps,
               gormFailed, gormErr, gormPanic, gormRollbacks, gormCommits, gormCommitted,
               gormRet, gormCalls>>
wsVars    == <<wsPc, wsMsg, wsReads, wsWrites, wsSent, wsReadErr, wsClosed>>
obsVars   == <<observers, agencyNews, lastOp, updates, removed>>
VARIABLES
    \* ---- mutex-guarded NotificationService
    nsSubscribers, \* n.subscribers: the keys of the map
    nsMutex,       \* n.mutex: 0 unlocked, else the goroutine holding it
    nsPc,          \* position of each goroutine inside the method it calls
    nsOp,          \* the method each goroutine calls and its argument
    nsPrinted,     \* per goroutine: the subscribers its running Notify has printed for
    nsCalls        \* calls begun so far

notifVars == <<nsSubscribers, nsMutex, nsPc, nsOp, nsPrinted, nsCalls>>

VARIABLES
    \* ---- validating UserBuilder
    ubUser,        \* b.user
    ubErr,         \* b.err
    ubChain,       \* the setter calls made on the builder, in order: [setter, arg]
    ubPc,          \* "building", or "built" when the last call was Build
    ubResult       \* what the last Build returned: [user, err]

builderVars == <<ubUser, ubErr, ubChain, ubPc, ubResult>>

VARIABLES
    \* ---- in-memory REST API
    users,         \* var users: the map from id to User
    restPc,        \* position of each request-serving goroutine inside its handler
    restReq,       \* the request each goroutine is serving or has served last, with
                   \* its number n in the order of acceptance
    restResp,      \* the response each goroutine wrote for its last request
    restLast,      \* per id: the last write made to users[id], and the user written
    restServed,    \* requests accepted so far
    restFatal      \* whether the run-time has stopped the process with a fatal error

restVars == <<users, restPc, restReq, restResp, restLast, restServed, restFatal>>

VARIABLES
    \* ---- CacheDecorator
    cache,         \* c.cache: the map from url to *http.Response
    cacheRet,      \* what the last CacheDecorator.Get returned: [url, resp, err]
    cacheGets,     \* calls of CacheDecorator.Get so far
    clientCalls,   \* per url: calls of c.client.Get(url) so far
    respMade,      \* how many http.Response values the wrapped client has allocated
    cacheOk        \* per url: the response of the first Get(url) that returned a nil
                   \* error, Nil while there was none

cacheVars == <<cache, cacheRet, cacheGets, clientCalls, respMade, cacheOk>>

VARIABLES
    \* ---- ImageProxy
    proxyName,     \* per proxy: p.name, "none" while the proxy is not constructed
    realImage,     \* per proxy: p.realImage, the pointer (Nil or n for the n-th Image
                   \* allocated) and the Image it points to
    displayCalls,  \* per proxy: calls of Display so far
    displayRet,    \* per proxy: what its last Display returned
    loadings,      \* per proxy: how many times the loading message was printed
    imagesMade     \* the Image values allocated so far, each with the proxy that made it

proxyVars == <<proxyName, realImage, displayCalls, displayRet, loadings, imagesMade>>

VARIABLES
    \* ---- Sorter with its sorting strategies
    strategy,      \* s.strategy: "BubbleSort" or "QuickSort"
    sortData,      \* the slice passed to the last Sorter.Sort
    sortResult,    \* what the last Sorter.Sort returned
    sortedBy       \* per strategy: the data and the result of the Sort made with it on
                   \* the data sorted last

sortVars == <<strategy, sortData, sortResult, sortedBy>>

VARIABLES
    \* ---- chain of responsibility: Kid.AskForApple
    kidName,       \* per kid: k.name, "" while the kid is not constructed
    nextKid,       \* per kid: k.nextKid, Nil or a kid
    kidPhase,      \* "building" the chain, "asking" (AskForApple running) or "done"
    kidCur,        \* the kid whose AskForApple is running, Nil when none is
    asked,         \* the kids AskForApple has been called on, in order
    kidOut         \* the lines printed, in order: [kid, says]

kidVars == <<kidName, nextKid, kidPhase, kidCur, asked, kidOut>>

VARIABLES
    \* ---- defer and named results
    dfFn,          \* the function main is running, "none" between calls
    dfPc,          \* the statement of it to execute next; 0 once return has executed
    dfResult,      \* its named result variable
    dfI,           \* its local variable i
    dfStack,       \* its deferred calls, the one registered last at the end
    dfPrinted,     \* how many lines its deferred calls have printed
    dfRet          \* per function: whether main has called it, and what it received

deferVars == <<dfFn, dfPc, dfResult, dfI, dfStack, dfPrinted, dfRet>>

VARIABLES
    \* ---- Sorter with configurable strategies (SortConfig)
    cfgStrategy,   \* s.strategy: "bubble", "quick" or "nil"
    cfgData,       \* main's data, the slice passed to Sorter.Sort
    cfgThreshold,  \* config.Threshold of the last Sorter.Sort
    cfgResult,     \* what the last Sorter.Sort returned
    cfgBy,         \* the strategy that made cfgResult ("none" before any Sort)
    cfgCalls,      \* the bubbleSort calls of the last Sort: range, indices touched, slice before and after
    cfgPanic       \* "none", or the run-time panic that ended the program

cfgVars == <<cfgStrategy, cfgData, cfgThreshold, cfgResult, cfgBy, cfgCalls, cfgPanic>>

VARIABLES
    \* ---- gorm.DB singleton
    dbInstance,    \* var instance *gorm.DB: 0 is nil, n > 0 the n-th opened *gorm.DB
    dbOnceDone,    \* once.done (0 or 1)
    dbOnceM,       \* once.m: 0 unlocked, else the goroutine holding it
    dbPc,          \* position of each goroutine inside GetInstance
    dbRet,         \* the pointers each goroutine's finished calls returned
    dbCalls,       \* calls each goroutine has begun
    dbOpens,       \* how many times gorm.Open has been called
    dbFailed,      \* 0, or the goroutine whose gorm.Open returned an error
    dbCrashed      \* whether an unrecovered panic has ended the process

dbVars == <<dbInstance, dbOnceDone, dbOnceM, dbPc, dbRet, dbCalls, dbOpens, dbFailed,
            dbCrashed>>

VARIABLES
    \* ---- RequestBuilder
    rbRequest,     \* b.request; its Headers field is a reference into rbMaps
    rbMaps,        \* the maps allocated so far, by reference: key -> value
    rbBuilt,       \* the Requests Build has returned, each with the map contents seen then
    rbCalls        \* calls made on the builder so far

reqVars == <<rbRequest, rbMaps, rbBuilt, rbCalls>>

vars == <<onceVars, appleVars, chanVars, sqlVars, gormVars, wsVars, obsVars, notifVars,
        builderVars, restVars, cacheVars, proxyVars, sortVars, kidVars, deferVars,
        cfgVars, dbVars, reqVars>>

Nil == 0

\* ------------------------------------------------------------------------
\* Bounds
\* ------------------------------------------------------------------------
NumGoroutines == 3
MaxCalls == 2
NumCallers == 2
MaxGets == 3
BufferSize == 2
MaxPublished == 2
MaxRows == 3
MaxSqlCalls == 3
MaxGormCalls == 2
MaxMessages == 3
MaxObservers == 3
NumNotifiers == 2
MaxNotifCalls == 4
MaxSetterCalls == 3
MaxRequests == 3
MaxCacheGets == 4
MaxDisplays == 3
MaxSliceLen == 3
MaxAsks == 4
MaxCfgLen == 4
MaxRequestCalls == 4

\* ========================================================================
\* sync.Once singleton: GetInstance (Singleton в Golang.md, lines 112-125)
\* ========================================================================
Goroutines == 1..NumGoroutines

OnceInit ==
    /\ instance = Nil
    /\ onceDone = 0
    /\ onceM = 0
    /\ oncePc = [g \in Goroutines |-> "idle"]
    /\ onceRet = [g \in Goroutines |-> {}]
    /\ onceCalls = [g \in Goroutines |-> 0]
    /\ onceInits = 0

NotOnce == <<appleVars, chanVars, sqlVars, gormVars, wsVars, obsVars, notifVars,
        builderVars, restVars, cacheVars, proxyVars, sortVars, kidVars, deferVars,
        cfgVars, dbVars, reqVars>>

\* A mutation of OnceMustRun: the slow path runs the body without looking at
\* done again once it holds the mutex.
OnceMustRunNoRecheck(done) == TRUE

\* once.Do runs its argument only while done is still 0; the test is made on
\* the fast path and again under the mutex.
OnceMustRun(done) == done = 0

\* GetInstance is called; once.Do's fast path loads done.
OnceDo(g) ==
    /\ oncePc[g] = "idle"
    /\ onceCalls[g] < MaxCalls
    /\ onceCalls' = [onceCalls EXCEPT ![g] = @ + 1]
    /\ oncePc' = [oncePc EXCEPT ![g] = IF onceDone = 0 THEN "lock" ELSE "return"]
    /\ UNCHANGED <<instance, onceDone, onceM, onceRet, onceInits>>
    /\ UNCHANGED NotOnce

\* doSlow: o.m.Lock() blocks while another goroutine holds the mutex.
OnceLock(g) ==
    /\ oncePc[g] = "lock"
    /\ onceM = 0
    /\ onceM' = g
    /\ oncePc' = [oncePc EXCEPT ![g] = IF OnceMustRun(onceDone) THEN "body" ELSE "unlock"]
    /\ UNCHANGED <<instance, onceDone, onceRet, onceCalls, onceInits>>
    /\ UNCHANGED NotOnce

\* The function literal: instance = &Config{Host: "localhost", Port: 8080}.
OnceBody(g) ==
    /\ oncePc[g] = "body"
    /\ onceInits' = onceInits + 1
    /\ instance' = onceInits + 1
    /\ oncePc' = [oncePc EXCEPT ![g] = "store"]
    /\ UNCHANGED <<onceDone, onceM, onceRet, onceCalls>>
    /\ UNCHANGED NotOnce

\* defer o.done.Store(1), run when the body has returned.
OnceStore(g) ==
    /\ oncePc[g] = "store"
    /\ onceDone' = 1
    /\ oncePc' = [oncePc EXCEPT ![g] = "unlock"]
    /\ UNCHANGED <<instance, onceM, onceRet, onceCalls, onceInits>>
    /\ UNCHANGED NotOnce

\* defer o.m.Unlock().
OnceUnlock(g) ==
    /\ oncePc[g] = "unlock"
    /\ onceM' = 0
    /\ oncePc' = [oncePc EXCEPT ![g] = "return"]
    /\ UNCHANGED <<instance, onceDone, onceRet, onceCalls, onceInits>>
    /\ UNCHANGED NotOnce

\* return instance
OnceReturn(g) ==
    /\ oncePc[g] = "return"
    /\ onceRet' = [onceRet EXCEPT ![g] = @ \cup {instance}]
    /\ oncePc' = [oncePc EXCEPT ![g] = "idle"]
    /\ UNCHANGED <<instance, onceDone, onceM, onceCalls, onceInits>>
    /\ UNCHANGED NotOnce

OnceNext ==
    \E g \in Goroutines :
        \/ OnceDo(g)
        \/ OnceLock(g)
        \/ OnceBody(g)
        \/ OnceStore(g)
        \/ OnceUnlock(g)
        \/ OnceReturn(g)

\* ========================================================================
\* Unsynchronised lazy singleton: GetBigApple (Patterns_programming.go,
\* lines 31-37; the same code is GetInstance of Singleton в Golang.md 2.1)
\* ========================================================================
Callers == 1..NumCallers

AppleInit ==
    /\ oneApple = Nil
    /\ applePc = [g \in Callers |-> "idle"]
    /\ appleSeen = [g \in Callers |-> Nil]
    /\ appleRet = [g \in Callers |-> {}]
    /\ appleCalls = [g \in Callers |-> 0]
    /\ appleMade = 0

NotApple == <<onceVars, chanVars, sqlVars, gormVars, wsVars, obsVars, notifVars,
        builderVars, restVars, cacheVars, proxyVars, sortVars, kidVars, deferVars,
        cfgVars, dbVars, reqVars>>

\* The reads and writes of oneApple are not ordered by any synchronisation.
\* A goroutine's read yields the variable's current value or the value the
\* goroutine itself last wrote or read (a write of another goroutine need
\* not be visible to it yet).
AppleReads(g) == {oneApple, appleSeen[g]}

\* A mutation of AppleStore: the assignment looks at the variable again and
\* keeps a value that is already there.
AppleStoreIfNil(cur, fresh) == IF cur = Nil THEN fresh ELSE cur

\* oneApple = &BigApple{size: 10}: the value the variable holds afterwards.
AppleStore(cur, fresh) == fresh

\* if oneApple == nil
AppleCheck(g) ==
    /\ applePc[g] = "idle"
    /\ appleCalls[g] < MaxGets
    /\ appleCalls' = [appleCalls EXCEPT ![g] = @ + 1]
    /\ \E v \in AppleReads(g) :
        /\ appleSeen' = [appleSeen EXCEPT ![g] = v]
        /\ applePc' = [applePc EXCEPT ![g] = IF v = Nil THEN "assign" ELSE "return"]
    /\ UNCHANGED <<oneApple, appleRet, appleMade>>
    /\ UNCHANGED NotApple

\* oneApple = &BigApple{size: 10}
AppleAssign(g) ==
    /\ applePc[g] = "assign"
    /\ appleMade' = appleMade + 1
    /\ oneApple' = AppleStore(oneApple, appleMade + 1)
    /\ appleSeen' = [appleSeen EXCEPT ![g] = oneApple']
    /\ applePc' = [applePc EXCEPT ![g] = "return"]
    /\ UNCHANGED <<appleRet, appleCalls>>
    /\ UNCHANGED NotApple

\* return oneApple
AppleReturn(g) ==
    /\ applePc[g] = "return"
    /\ \E v \in AppleReads(g) :
        /\ appleSeen' = [appleSeen EXCEPT ![g] = v]
        /\ appleRet' = [appleRet EXCEPT ![g] = @ \cup {v}]
    /\ applePc' = [applePc EXCEPT ![g] = "idle"]
    /\ UNCHANGED <<oneApple, appleCalls, appleMade>>
    /\ UNCHANGED NotApple

AppleNext ==
    \E g \in Callers :
        \/ AppleCheck(g)
        \/ AppleAssign(g)
        \/ AppleReturn(g)

\* ========================================================================
\* Channel-based NewsAgency (Observer в Golang.md, lines 178-217).  The
\* field is declared chan<- string, which the compiler refuses to range over;
\* the model gives the channel both directions, as the example intends.
\* ========================================================================
Callbacks == {"email", "sms"}
NewsItems == {"n1", "n2"}

\* NewNewsAgency(bufferSize): the channel is made and listen() is started.
ChanInit ==
    /\ subscribers = <<>>
    /\ chanClosed = FALSE
    /\ chanNews = ""
    /\ listenPc = "running"
    /\ subPc = [o \in Callbacks |-> "none"]
    /\ subGot = [o \in Callbacks |-> <<>>]
    /\ subSince = [o \in Callbacks |-> 0]
    /\ listenGot = 0
    /\ published = <<>>
    /\ chanPanic = "none"

NotChan == <<onceVars, appleVars, sqlVars, gormVars, wsVars, obsVars, notifVars,
        builderVars, restVars, cacheVars, proxyVars, sortVars, kidVars, deferVars,
        cfgVars, dbVars, reqVars>>

\* Subscribe(observer): starts a goroutine that ranges over the channel.
Subscribe(o) ==
    /\ chanPanic = "none"
    /\ subPc[o] = "none"
    /\ subPc' = [subPc EXCEPT ![o] = "running"]
    /\ subSince' = [subSince EXCEPT ![o] = Len(published)]
    /\ UNCHANGED <<subscribers, chanClosed, chanNews, listenPc, subGot, listenGot,
                   published, chanPanic>>
    /\ UNCHANGED NotChan

\* A mutation of SetNews: a closed channel is looked for before the send.
SetNewsGuarded(news) ==
    /\ chanPanic = "none"
    /\ Len(published) < MaxPublished
    /\ chanClosed \/ Len(subscribers) < BufferSize
    /\ chanNews' = news
    /\ IF chanClosed
         THEN UNCHANGED <<subscribers, published>>
         ELSE /\ subscribers' = Append(subscribers, news)
              /\ published' = Append(published, news)
    /\ UNCHANGED <<chanPanic, chanClosed, listenPc, subPc, subGot, subSince, listenGot>>
    /\ UNCHANGED NotChan

\* SetNews(news): n.news = news; n.subscribers <- news.  The send blocks while
\* the buffer is full and panics on a closed channel.
SetNews(news) ==
    /\ chanPanic = "none"
    /\ Len(published) < MaxPublished
    /\ chanClosed \/ Len(subscribers) < BufferSize
    /\ chanNews' = news
    /\ IF chanClosed
         THEN /\ chanPanic' = "send on closed channel"
              /\ UNCHANGED <<subscribers, published>>
         ELSE /\ subscribers' = Append(subscribers, news)
              /\ published' = Append(published, news)
              /\ UNCHANGED chanPanic
    /\ UNCHANGED <<chanClosed, listenPc, subPc, subGot, subSince, listenGot>>
    /\ UNCHANGED NotChan

\* Unsubscribe(): close(n.subscribers); closing a closed channel panics.
Unsubscribe ==
    /\ chanPanic = "none"
    /\ IF chanClosed
         THEN /\ chanPanic' = "close of closed channel"
              /\ UNCHANGED chanClosed
         ELSE /\ chanClosed' = TRUE
              /\ UNCHANGED chanPanic
    /\ UNCHANGED <<subscribers, chanNews, listenPc, subPc, subGot, subSince, listenGot,
                   published>>
    /\ UNCHANGED NotChan

\* listen(): for news := range n.subscribers { } takes the oldest item and
\* does nothing with it.
ListenReceive ==
    /\ chanPanic = "none"
    /\ listenPc = "running"
    /\ subscribers # <<>>
    /\ subscribers' = Tail(subscribers)
    /\ listenGot' = listenGot + 1
    /\ UNCHANGED <<chanClosed, chanNews, listenPc, subPc, subGot, subSince, published,
                   chanPanic>>
    /\ UNCHANGED NotChan

\* listen(): the range loop ends when the channel is closed and drained.
ListenExit ==
    /\ chanPanic = "none"
    /\ listenPc = "running"
    /\ subscribers = <<>>
    /\ chanClosed
    /\ listenPc' = "exited"
    /\ UNCHANGED <<subscribers, chanClosed, chanNews, subPc, subGot, subSince, listenGot,
                   published, chanPanic>>
    /\ UNCHANGED NotChan

\* The goroutine of Subscribe: takes the oldest item and calls observer(news).
SubscriberReceive(o) ==
    /\ chanPanic = "none"
    /\ subPc[o] = "running"
    /\ subscribers # <<>>
    /\ subscribers' = Tail(subscribers)
    /\ subGot' = [subGot EXCEPT ![o] = Append(@, Head(subscribers))]
    /\ UNCHANGED <<chanClosed, chanNews, listenPc, subPc, subSince, listenGot, published,
                   chanPanic>>
    /\ UNCHANGED NotChan

\* A mutation of SubscriberExit: the goroutine stays in its loop.
SubscriberNeverExits(o) ==
    /\ FALSE
    /\ UNCHANGED vars

\* The goroutine of Subscribe: its range loop ends when the channel is closed
\* and drained.
SubscriberExit(o) ==
    /\ chanPanic = "none"
    /\ subPc[o] = "running"
    /\ subscribers = <<>>
    /\ chanClosed
    /\ subPc' = [subPc EXCEPT ![o] = "exited"]
    /\ UNCHANGED <<subscribers, chanClosed, chanNews, listenPc, subGot, subSince,
                   listenGot, published, chanPanic>>
    /\ UNCHANGED NotChan

ChanNext ==
    \/ \E o \in Callbacks : Subscribe(o)
    \/ \E news \in NewsItems : SetNews(news)
    \/ Unsubscribe
    \/ ListenReceive
    \/ ListenExit
    \/ \E o \in Callbacks : SubscriberReceive(o)
    \/ \E o \in Callbacks : SubscriberExit(o)

\* ========================================================================
\* database/sql transactions (Транзакции в PostgreSQL.md): transferMoney
\* (lines 107-142), transferMoneyWithCheck (175-218), insertAndGetID
\* (231-256), on the table accounts(id SERIAL PRIMARY KEY, user_id INT NOT
\* NULL, balance DECIMAL NOT NULL) of lines 89-93.  PostgreSQL runs the
\* transactions at READ COMMITTED: a statement sees the rows committed when
\* it starts, UPDATE and SELECT ... FOR UPDATE lock the rows they match and
\* wait for a row another transaction has locked, and the locks are held
\* until the transaction commits or rolls back.  Amounts are integers.
\* ========================================================================
Conns == {"c1", "c2"}
UserIds == {1, 2}
Amounts == {1}
Balances == {0, 2}
RowIds == 1..MaxRows
NoRow == [user_id |-> 0, balance |-> 0]
NoTx == "none"
NoErr == "nil"
NoArg == [fromID |-> 0, toID |-> 0, amount |-> 0]
ZeroDelta == [i \in RowIds |-> 0]
ZeroEffect == [u \in UserIds |-> 0]

SqlInit ==
    /\ accounts = [i \in RowIds |-> NoRow]
    /\ nextId = 1
    /\ rowLock = [i \in RowIds |-> NoTx]
    /\ txPc = [c \in Conns |-> "idle"]
    /\ txFn = [c \in Conns |-> "none"]
    /\ txArg = [c \in Conns |-> NoArg]
    /\ txErr = [c \in Conns |-> NoErr]
    /\ txDelta = [c \in Conns |-> ZeroDelta]
    /\ txInsert = [c \in Conns |-> NoRow]
    /\ txRollbacks = [c \in Conns |-> 0]
    /\ txCommitted = [c \in Conns |-> FALSE]
    /\ txEffect = [c \in Conns |-> ZeroEffect]
    /\ txRet = [c \in Conns |-> NoErr]
    /\ sqlCalls = 0

NotSql == <<onceVars, appleVars, chanVars, gormVars, wsVars, obsVars, notifVars,
        builderVars, restVars, cacheVars, proxyVars, sortVars, kidVars, deferVars,
        cfgVars, dbVars, reqVars>>

\* The table after insertAndGetID(db, 1, 2) and insertAndGetID(db, 2, 2) have
\* committed: one account for each user, no call running.
SqlSeededInit ==
    /\ accounts = [i \in RowIds |-> IF i \in UserIds THEN [user_id |-> i, balance |-> 2]
                                                       ELSE NoRow]
    /\ nextId = 3
    /\ rowLock = [i \in RowIds |-> NoTx]
    /\ txPc = [c \in Conns |-> "idle"]
    /\ txFn = [c \in Conns |-> "none"]
    /\ txArg = [c \in Conns |-> NoArg]
    /\ txErr = [c \in Conns |-> NoErr]
    /\ txDelta = [c \in Conns |-> ZeroDelta]
    /\ txInsert = [c \in Conns |-> NoRow]
    /\ txRollbacks = [c \in Conns |-> 0]
    /\ txCommitted = [c \in Conns |-> FALSE]
    /\ txEffect = [c \in Conns |-> ZeroEffect]
    /\ txRet = [c \in Conns |-> NoErr]
    /\ sqlCalls = 0

\* WHERE user_id = u: the committed rows the statement matches.
RowsOf(u) == {i \in RowIds : accounts[i] # NoRow /\ accounts[i].user_id = u}

\* A mutation of CanLock: a statement never waits for a row lock.
CanLockAlways(c, rows) == TRUE

\* The statement of connection c can lock the rows: no other transaction
\* holds one of them.
CanLock(c, rows) == \A i \in rows : rowLock[i] \in {NoTx, c}

LockRows(c, rows) == [i \in RowIds |-> IF i \in rows THEN c ELSE rowLock[i]]

ReleaseRows(c) == [i \in RowIds |-> IF rowLock[i] = c THEN NoTx ELSE rowLock[i]]

RECURSIVE SumDelta(_, _)
SumDelta(delta, rows) ==
    IF rows = {} THEN 0
    ELSE LET i == CHOOSE j \in rows : TRUE
         IN  delta[i] + SumDelta(delta, rows \ {i})

\* The first statement of each function, after Begin.
FirstStep(fn) ==
    CASE fn = "transferMoney" -> "debit"
      [] fn = "transferMoneyWithCheck" -> "select"
      [] fn = "insertAndGetID" -> "insert"

\* A mutation of MustRollback: the deferred function tests the wrong way.
MustRollbackInverted(err) == err = NoErr

\* The deferred function: if err != nil { tx.Rollback() }.
MustRollback(err) == err # NoErr

\* if balance < amount
InsufficientFunds(balance, amount) == balance < amount

\* tx, err := db.Begin(); if err != nil { return err }
Begin(c, fn, arg, ok) ==
    /\ txPc[c] = "idle"
    /\ sqlCalls < MaxSqlCalls
    /\ sqlCalls' = sqlCalls + 1
    /\ txFn' = [txFn EXCEPT ![c] = fn]
    /\ txArg' = [txArg EXCEPT ![c] = arg]
    /\ IF ok
         THEN /\ txPc' = [txPc EXCEPT ![c] = FirstStep(fn)]
              /\ txErr' = [txErr EXCEPT ![c] = NoErr]
              /\ txRet' = [txRet EXCEPT ![c] = NoErr]
         ELSE /\ txPc' = [txPc EXCEPT ![c] = "returned"]
              /\ txErr' = [txErr EXCEPT ![c] = "begin failed"]
              /\ txRet' = [txRet EXCEPT ![c] = "begin failed"]
    /\ UNCHANGED <<accounts, nextId, rowLock, txDelta, txInsert, txRollbacks,
                   txCommitted, txEffect>>
    /\ UNCHANGED NotSql

\* A statement fails (the connection is lost, the statement times out, the
\* server ends a lock wait it found to be a deadlock): err is set and the
\* function returns through its deferred function.
StatementFails(c) ==
    /\ txPc[c] \in {"select", "debit", "credit", "insert"}
    /\ txErr' = [txErr EXCEPT ![c] = "statement failed"]
    /\ txPc' = [txPc EXCEPT ![c] = "deferred"]
    /\ UNCHANGED <<accounts, nextId, rowLock, txFn, txArg, txDelta, txInsert,
                   txRollbacks, txCommitted, txEffect, txRet, sqlCalls>>
    /\ UNCHANGED NotSql

\* transferMoneyWithCheck: SELECT balance FROM accounts WHERE user_id = $1
\* FOR UPDATE, Scan(&balance), and the test of the balance.  QueryRow scans
\* the first row of the result, which is any of the matching rows, and
\* reports sql.ErrNoRows when there is none.
SelectForUpdate(c) ==
    /\ txPc[c] = "select"
    /\ LET rows == RowsOf(txArg[c].fromID) IN
        /\ CanLock(c, rows)
        /\ rowLock' = LockRows(c, rows)
        /\ IF rows = {}
             THEN /\ txErr' = [txErr EXCEPT ![c] = "no rows"]
                  /\ txPc' = [txPc EXCEPT ![c] = "deferred"]
             ELSE \E i \in rows :
                    IF InsufficientFunds(accounts[i].balance, txArg[c].amount)
                      THEN /\ txErr' = [txErr EXCEPT ![c] = "insufficient funds"]
                           /\ txPc' = [txPc EXCEPT ![c] = "deferred"]
                      ELSE /\ txErr' = [txErr EXCEPT ![c] = NoErr]
                           /\ txPc' = [txPc EXCEPT ![c] = "debit"]
    /\ UNCHANGED <<accounts, nextId, txFn, txArg, txDelta, txInsert, txRollbacks,
                   txCommitted, txEffect, txRet, sqlCalls>>
    /\ UNCHANGED NotSql

\* UPDATE accounts SET balance = balance - $1 WHERE user_id = $2 (fromID):
\* every matching row is locked and changed; no matching row is no error.
Debit(c) ==
    /\ txPc[c] = "debit"
    /\ LET rows == RowsOf(txArg[c].fromID) IN
        /\ CanLock(c, rows)
        /\ rowLock' = LockRows(c, rows)
        /\ txDelta' = [txDelta EXCEPT ![c] =
               [i \in RowIds |-> IF i \in rows THEN @[i] - txArg[c].amount ELSE @[i]]]
    /\ txErr' = [txErr EXCEPT ![c] = NoErr]
    /\ txPc' = [txPc EXCEPT ![c] = "credit"]
    /\ UNCHANGED <<accounts, nextId, txFn, txArg, txInsert, txRollbacks, txCommitted,
                   txEffect, txRet, sqlCalls>>
    /\ UNCHANGED NotSql

\* UPDATE accounts SET balance = balance + $1 WHERE user_id = $2 (toID).
Credit(c) ==
    /\ txPc[c] = "credit"
    /\ LET rows == RowsOf(txArg[c].toID) IN
        /\ CanLock(c, rows)
        /\ rowLock' = LockRows(c, rows)
        /\ txDelta' = [txDelta EXCEPT ![c] =
               [i \in RowIds |-> IF i \in rows THEN @[i] + txArg[c].amount ELSE @[i]]]
    /\ txErr' = [txErr EXCEPT ![c] = NoErr]
    /\ txPc' = [txPc EXCEPT ![c] = "commit"]
    /\ UNCHANGED <<accounts, nextId, txFn, txArg, txInsert, txRollbacks, txCommitted,
                   txEffect, txRet, sqlCalls>>
    /\ UNCHANGED NotSql

\* insertAndGetID: INSERT INTO accounts (user_id, balance) VALUES ($1, $2)
\* RETURNING id.  The sequence value is taken whether or not the transaction
\* commits.
Insert(c) ==
    /\ txPc[c] = "insert"
    /\ nextId <= MaxRows
    /\ nextId' = nextId + 1
    /\ txInsert' = [txInsert EXCEPT ![c] =
           [id |-> nextId, user_id |-> txArg[c].fromID, balance |-> txArg[c].amount]]
    /\ txErr' = [txErr EXCEPT ![c] = NoErr]
    /\ txPc' = [txPc EXCEPT ![c] = "commit"]
    /\ UNCHANGED <<accounts, rowLock, txFn, txArg, txDelta, txRollbacks, txCommitted,
                   txEffect, txRet, sqlCalls>>
    /\ UNCHANGED NotSql

\* The rows of the table once the transaction of c is committed.
Committed(c) ==
    [i \in RowIds |->
        IF txInsert[c] # NoRow /\ txInsert[c].id = i
          THEN [user_id |-> txInsert[c].user_id, balance |-> txInsert[c].balance]
        ELSE IF accounts[i] # NoRow
          THEN [accounts[i] EXCEPT !.balance = @ + txDelta[c][i]]
        ELSE NoRow]

\* err = tx.Commit(): the changes become the committed rows and the locks
\* are released, or the commit fails and the transaction is gone without
\* having changed anything.
Commit(c, ok) ==
    /\ txPc[c] = "commit"
    /\ IF ok
         THEN /\ accounts' = Committed(c)
              /\ txCommitted' = [txCommitted EXCEPT ![c] = TRUE]
              /\ txEffect' = [txEffect EXCEPT ![c] =
                     [u \in UserIds |->
                         SumDelta(txDelta[c], RowsOf(u))
                           + (IF txInsert[c] # NoRow /\ txInsert[c].user_id = u
                                THEN txInsert[c].balance ELSE 0)]]
              /\ txErr' = [txErr EXCEPT ![c] = NoErr]
         ELSE /\ txErr' = [txErr EXCEPT ![c] = "commit failed"]
              /\ UNCHANGED <<accounts, txCommitted, txEffect>>
    /\ rowLock' = ReleaseRows(c)
    /\ txDelta' = [txDelta EXCEPT ![c] = ZeroDelta]
    /\ txInsert' = [txInsert EXCEPT ![c] = NoRow]
    /\ txPc' = [txPc EXCEPT ![c] = "deferred"]
    /\ UNCHANGED <<nextId, txFn, txArg, txRollbacks, txRet, sqlCalls>>
    /\ UNCHANGED NotSql

\* The deferred function, run as the function returns err: tx.Rollback()
\* when err is not nil.  Rollback drops the uncommitted changes and the locks.
Deferred(c) ==
    /\ txPc[c] = "deferred"
    /\ IF MustRollback(txErr[c])
         THEN /\ txRollbacks' = [txRollbacks EXCEPT ![c] = @ + 1]
              /\ rowLock' = ReleaseRows(c)
              /\ txDelta' = [txDelta EXCEPT ![c] = ZeroDelta]
              /\ txInsert' = [txInsert EXCEPT ![c] = NoRow]
         ELSE UNCHANGED <<txRollbacks, rowLock, txDelta, txInsert>>
    /\ txRet' = [txRet EXCEPT ![c] = txErr[c]]
    /\ txPc' = [txPc EXCEPT ![c] = "returned"]
    /\ UNCHANGED <<accounts, nextId, txFn, txArg, txErr, txCommitted, txEffect, sqlCalls>>
    /\ UNCHANGED NotSql

\* The caller has the result; the connection is free for the next call.
Returned(c) ==
    /\ txPc[c] = "returned"
    /\ txPc' = [txPc EXCEPT ![c] = "idle"]
    /\ txFn' = [txFn EXCEPT ![c] = "none"]
    /\ txArg' = [txArg EXCEPT ![c] = NoArg]
    /\ txErr' = [txErr EXCEPT ![c] = NoErr]
    /\ txRet' = [txRet EXCEPT ![c] = NoErr]
    /\ txRollbacks' = [txRollbacks EXCEPT ![c] = 0]
    /\ txCommitted' = [txCommitted EXCEPT ![c] = FALSE]
    /\ txEffect' = [txEffect EXCEPT ![c] = ZeroEffect]
    /\ UNCHANGED <<accounts, nextId, rowLock, txDelta, txInsert, sqlCalls>>
    /\ UNCHANGED NotSql

TransferArgs == [fromID : UserIds, toID : UserIds, amount : Amounts]
\* insertAndGetID(db, userID, balance), held in the same argument record.
InsertArgs == [fromID : UserIds, toID : {0}, amount : Balances]

SqlNext ==
    \/ \E c \in Conns, ok \in BOOLEAN :
          \/ \E arg \in TransferArgs : Begin(c, "transferMoney", arg, ok)
          \/ \E arg \in TransferArgs : Begin(c, "transferMoneyWithCheck", arg, ok)
          \/ \E arg \in InsertArgs : Begin(c, "insertAndGetID", arg, ok)
    \/ \E c \in Conns : StatementFails(c)
    \/ \E c \in Conns : SelectForUpdate(c)
    \/ \E c \in Conns : Debit(c)
    \/ \E c \in Conns : Credit(c)
    \/ \E c \in Conns : Insert(c)
    \/ \E c \in Conns, ok \in BOOLEAN : Commit(c, ok)
    \/ \E c \in Conns : Deferred(c)
    \/ \E c \in Conns : Returned(c)

\* ========================================================================
\* GORM transferMoney (GORM (ORM).md, lines 284-319).  tx.First reports
\* gorm.ErrRecordNotFound for an id with no row; tx.Save writes the whole
\* record under its primary key.  Every call into the transaction can also
\* fail with another error or panic.
\* ========================================================================
GormIds == {1, 2, 3}
GormAmounts == {1}
Absent == <<>>
GormArgs == [fromID : GormIds, toID : GormIds, amount : GormAmounts]
GormNoArg == [fromID |-> 0, toID |-> 0, amount |-> 0]
GormNoneSaved == [id \in GormIds |-> Absent]

GormInit ==
    /\ gormUsers = [id \in GormIds |-> IF id = 3 THEN Absent ELSE <<2>>]
    /\ gormPc = "idle"
    /\ gormArg = GormNoArg
    /\ gormFrom = 0
    /\ gormTo = 0
    /\ gormSaved = GormNoneSaved
    /\ gormOps = <<>>
    /\ gormFailed = "none"
    /\ gormErr = NoErr
    /\ gormPanic = FALSE
    /\ gormRollbacks = 0
    /\ gormCommits = 0
    /\ gormCommitted = FALSE
    /\ gormRet = NoErr
    /\ gormCalls = 0

NotGorm == <<onceVars, appleVars, chanVars, sqlVars, wsVars, obsVars, notifVars,
        builderVars, restVars, cacheVars, proxyVars, sortVars, kidVars, deferVars,
        cfgVars, dbVars, reqVars>>

\* The calls into the transaction, in program order, and what follows each.
GormAfter(op) ==
    CASE op = "firstFrom" -> "firstTo"
      [] op = "firstTo" -> "saveFrom"
      [] op = "saveFrom" -> "saveTo"
      [] op = "saveTo" -> "commit"

GormCallOps == {"firstFrom", "firstTo", "saveFrom", "saveTo"}

\* A mutation of GormOnError: the last error branch returns without rolling
\* back.
GormOnErrorLastLeaks(op) == IF op = "saveTo" THEN "return" ELSE "rollback"

\* if err := tx.<op>.Error; err != nil { tx.Rollback(); return err }: where
\* a failed call of op continues.
GormOnError(op) == "rollback"

\* tx := db.Begin(); if tx.Error != nil { return tx.Error }
GormBegin(arg, ok) ==
    /\ gormPc = "idle"
    /\ gormCalls < MaxGormCalls
    /\ gormCalls' = gormCalls + 1
    /\ gormArg' = arg
    /\ gormFrom' = 0
    /\ gormTo' = 0
    /\ gormSaved' = GormNoneSaved
    /\ gormOps' = <<>>
    /\ gormFailed' = "none"
    /\ gormPanic' = FALSE
    /\ gormRollbacks' = 0
    /\ gormCommits' = 0
    /\ gormCommitted' = FALSE
    /\ IF ok
         THEN gormPc' = "firstFrom" /\ gormErr' = NoErr /\ gormRet' = NoErr
         ELSE gormPc' = "returned" /\ gormErr' = "begin failed" /\ gormRet' = "begin failed"
    /\ UNCHANGED gormUsers
    /\ UNCHANGED NotGorm

\* The row tx.First reads: the transaction's own write, else the committed row.
GormRow(id) == IF gormSaved[id] # Absent THEN gormSaved[id] ELSE gormUsers[id]

\* tx.First(&fromUser, fromID) and tx.First(&toUser, toID) succeed; after the
\* second one, fromUser.Balance -= amount and toUser.Balance += amount.
GormFirst ==
    /\ gormPc \in {"firstFrom", "firstTo"}
    /\ LET id == IF gormPc = "firstFrom" THEN gormArg.fromID ELSE gormArg.toID IN
        /\ GormRow(id) # Absent
        /\ IF gormPc = "firstFrom"
             THEN gormFrom' = GormRow(id)[1] /\ UNCHANGED gormTo
             ELSE /\ gormFrom' = gormFrom - gormArg.amount
                  /\ gormTo' = GormRow(id)[1] + gormArg.amount
    /\ gormOps' = Append(gormOps, gormPc)
    /\ gormPc' = GormAfter(gormPc)
    /\ UNCHANGED <<gormUsers, gormArg, gormSaved, gormFailed, gormErr, gormPanic,
                   gormRollbacks, gormCommits, gormCommitted, gormRet, gormCalls>>
    /\ UNCHANGED NotGorm

\* tx.Save(&fromUser) and tx.Save(&toUser) succeed.
GormSave ==
    /\ gormPc \in {"saveFrom", "saveTo"}
    /\ gormSaved' = IF gormPc = "saveFrom"
                      THEN [gormSaved EXCEPT ![gormArg.fromID] = <<gormFrom>>]
                      ELSE [gormSaved EXCEPT ![gormArg.toID] = <<gormTo>>]
    /\ gormOps' = Append(gormOps, gormPc)
    /\ gormPc' = GormAfter(gormPc)
    /\ UNCHANGED <<gormUsers, gormArg, gormFrom, gormTo, gormFailed, gormErr, gormPanic,
                   gormRollbacks, gormCommits, gormCommitted, gormRet, gormCalls>>
    /\ UNCHANGED NotGorm

\* A tx.First or tx.Save returns an error: tx.First of an id with no row
\* always does (record not found), any call can (the connection is lost).
GormCallFails(e) ==
    /\ gormPc \in GormCallOps
    /\ e = "record not found" =>
          /\ gormPc \in {"firstFrom", "firstTo"}
          /\ GormRow(IF gormPc = "firstFrom" THEN gormArg.fromID ELSE gormArg.toID) = Absent
    /\ gormFailed' = gormPc
    /\ gormErr' = e
    /\ gormPc' = GormOnError(gormPc)
    /\ UNCHANGED <<gormUsers, gormArg, gormFrom, gormTo, gormSaved, gormOps, gormPanic,
                   gormRollbacks, gormCommits, gormCommitted, gormRet, gormCalls>>
    /\ UNCHANGED NotGorm

\* tx.Rollback() of an error branch, then return err.
GormRollback ==
    /\ gormPc = "rollback"
    /\ gormRollbacks' = gormRollbacks + 1
    /\ gormSaved' = GormNoneSaved
    /\ gormPc' = "return"
    /\ UNCHANGED <<gormUsers, gormArg, gormFrom, gormTo, gormOps, gormFailed, gormErr,
                   gormPanic, gormCommits, gormCommitted, gormRet, gormCalls>>
    /\ UNCHANGED NotGorm

\* return tx.Commit().Error
GormCommit(ok) ==
    /\ gormPc = "commit"
    /\ gormCommits' = gormCommits + 1
    /\ IF ok
         THEN /\ gormUsers' = [id \in GormIds |->
                     IF gormSaved[id] # Absent THEN gormSaved[id] ELSE gormUsers[id]]
              /\ gormCommitted' = TRUE
              /\ gormErr' = NoErr
         ELSE /\ gormErr' = "commit failed"
              /\ UNCHANGED <<gormUsers, gormCommitted>>
    /\ gormSaved' = GormNoneSaved
    /\ gormPc' = "return"
    /\ UNCHANGED <<gormArg, gormFrom, gormTo, gormOps, gormFailed, gormPanic,
                   gormRollbacks, gormRet, gormCalls>>
    /\ UNCHANGED NotGorm

\* A call into the transaction panics between Begin and the return.
GormPanics ==
    /\ gormPc \in GormCallOps \cup {"commit"}
    /\ gormPanic' = TRUE
    /\ gormPc' = "return"
    /\ UNCHANGED <<gormUsers, gormArg, gormFrom, gormTo, gormSaved, gormOps, gormFailed,
                   gormErr, gormRollbacks, gormCommits, gormCommitted, gormRet, gormCalls>>
    /\ UNCHANGED NotGorm

\* A mutation of RecoveredResult: the recovered call reports the panic.
RecoveredResultPanic == "panic"

\* func transferMoney(...) error: the result has no name, so the deferred
\* function cannot set it and a recovered call returns the zero value.
RecoveredResult == NoErr

\* The function returns and its deferred function runs: if r := recover();
\* r != nil { tx.Rollback() }.  The result is unnamed, so a recovered call
\* returns the zero value nil.
GormReturn ==
    /\ gormPc = "return"
    /\ IF gormPanic
         THEN /\ gormRollbacks' = gormRollbacks + 1
              /\ gormSaved' = GormNoneSaved
              /\ gormRet' = RecoveredResult
         ELSE /\ gormRet' = gormErr
              /\ UNCHANGED <<gormRollbacks, gormSaved>>
    /\ gormPc' = "returned"
    /\ UNCHANGED <<gormUsers, gormArg, gormFrom, gormTo, gormOps, gormFailed, gormErr,
                   gormPanic, gormCommits, gormCommitted, gormCalls>>
    /\ UNCHANGED NotGorm

\* The caller has the result and may call again.
GormReturned ==
    /\ gormPc = "returned"
    /\ gormPc' = "idle"
    /\ UNCHANGED <<gormUsers, gormArg, gormFrom, gormTo, gormSaved, gormOps, gormFailed,
                   gormErr, gormPanic, gormRollbacks, gormCommits, gormCommitted, gormRet,
                   gormCalls>>
    /\ UNCHANGED NotGorm

GormNext ==
    \/ \E arg \in GormArgs, ok \in BOOLEAN : GormBegin(arg, ok)
    \/ GormFirst
    \/ GormSave
    \/ \E e \in {"record not found", "call failed"} : GormCallFails(e)
    \/ GormRollback
    \/ \E ok \in BOOLEAN : GormCommit(ok)
    \/ GormPanics
    \/ GormReturn
    \/ GormReturned

\* ========================================================================
\* WebSocket echo handler: handleConnection (http_https.md, lines 193-210)
\* ========================================================================
TextMessage == 1
BinaryMessage == 2
WsMessages == [type : {TextMessage, BinaryMessage}, data : {"a", "b"}]
WsNoMessage == [type |-> 0, data |-> ""]

WsInit ==
    /\ wsPc = "upgrade"
    /\ wsMsg = WsNoMessage
    /\ wsReads = <<>>
    /\ wsWrites = <<>>
    /\ wsSent = <<>>
    /\ wsReadErr = FALSE
    /\ wsClosed = FALSE

NotWs == <<onceVars, appleVars, chanVars, sqlVars, gormVars, obsVars, notifVars,
        builderVars, restVars, cacheVars, proxyVars, sortVars, kidVars, deferVars,
        cfgVars, dbVars, reqVars>>

\* A mutation of WsEcho: the reply is always sent as a text message.
WsEchoAsText(messageType, msg) == [type |-> TextMessage, data |-> msg]

\* conn.WriteMessage(messageType, msg): the message the handler writes.
WsEcho(messageType, msg) == [type |-> messageType, data |-> msg]

\* conn, err := upgrader.Upgrade(w, r, nil); on an error the handler returns
\* with no connection.
WsUpgrade(ok) ==
    /\ wsPc = "upgrade"
    /\ wsPc' = IF ok THEN "read" ELSE "done"
    /\ UNCHANGED <<wsMsg, wsReads, wsWrites, wsSent, wsReadErr, wsClosed>>
    /\ UNCHANGED NotWs

\* messageType, msg, err := conn.ReadMessage() returns a message.
WsRead(m) ==
    /\ wsPc = "read"
    /\ Len(wsReads) < MaxMessages
    /\ wsMsg' = m
    /\ wsReads' = Append(wsReads, m)
    /\ wsPc' = "write"
    /\ UNCHANGED <<wsWrites, wsSent, wsReadErr, wsClosed>>
    /\ UNCHANGED NotWs

\* conn.ReadMessage() returns an error: break, and the deferred conn.Close()
\* runs as the handler returns.
WsReadError ==
    /\ wsPc = "read"
    /\ wsReadErr' = TRUE
    /\ wsClosed' = TRUE
    /\ wsPc' = "done"
    /\ UNCHANGED <<wsMsg, wsReads, wsWrites, wsSent>>
    /\ UNCHANGED NotWs

\* conn.WriteMessage(messageType, msg); its error is not looked at.
WsWrite(ok) ==
    /\ wsPc = "write"
    /\ wsWrites' = Append(wsWrites, WsEcho(wsMsg.type, wsMsg.data))
    /\ wsSent' = IF ok THEN Append(wsSent, WsEcho(wsMsg.type, wsMsg.data)) ELSE wsSent
    /\ wsPc' = "read"
    /\ UNCHANGED <<wsMsg, wsReads, wsReadErr, wsClosed>>
    /\ UNCHANGED NotWs

WsNext ==
    \/ \E ok \in BOOLEAN : WsUpgrade(ok)
    \/ \E m \in WsMessages : WsRead(m)
    \/ WsReadError
    \/ \E ok \in BOOLEAN : WsWrite(ok)

\* ========================================================================
\* Synchronous NewsAgency (Observer в Golang.md, lines 54-92)
\* ========================================================================
Observers == {"ivan", "maria", "oleg"}
News == {"n1", "n2"}
NoOp == [op |-> "NewNewsAgency", arg |-> ""]

\* NewNewsAgency(): observers: make([]Observer, 0).
ObsInit ==
    /\ observers = <<>>
    /\ agencyNews = ""
    /\ lastOp = NoOp
    /\ updates = <<>>
    /\ removed = {}

NotObs == <<onceVars, appleVars, chanVars, sqlVars, gormVars, wsVars, notifVars,
        builderVars, restVars, cacheVars, proxyVars, sortVars, kidVars, deferVars,
        cfgVars, dbVars, reqVars>>

\* How many entries of the list are observer o.
Registrations(list, o) == Cardinality({i \in 1..Len(list) : list[i] = o})

\* The list without its i-th entry: append(list[:i], list[i+1:]...).
WithoutEntry(list, i) == SubSeq(list, 1, i - 1) \o SubSeq(list, i + 1, Len(list))

\* A mutation of RemoveFrom: the loop takes out the last matching entry.
RemoveLastFrom(list, o) ==
    IF \E i \in 1..Len(list) : list[i] = o
      THEN WithoutEntry(list, CHOOSE i \in 1..Len(list) :
                                  list[i] = o /\ \A j \in (i + 1)..Len(list) : list[j] # o)
      ELSE list

\* RemoveObserver's loop: for i, obs := range n.observers { if obs ==
\* observer { remove entry i; break } }, from index i on.
RECURSIVE RemoveFromIndex(_, _, _)
RemoveFromIndex(list, o, i) ==
    IF i > Len(list) THEN list
    ELSE IF list[i] = o THEN WithoutEntry(list, i)
    ELSE RemoveFromIndex(list, o, i + 1)

RemoveFrom(list, o) == RemoveFromIndex(list, o, 1)

\* A mutation of NotifyCalls: the loop starts at the second observer.
NotifyCallsSkipFirst(list, news) ==
    [i \in 1..(IF Len(list) = 0 THEN 0 ELSE Len(list) - 1) |->
        [observer |-> list[i + 1], news |-> news]]

\* NotifyObservers: for _, observer := range n.observers {
\* observer.Update(n.news) }: the calls made, from index i on.
RECURSIVE NotifyFromIndex(_, _, _)
NotifyFromIndex(list, news, i) ==
    IF i > Len(list) THEN <<>>
    ELSE <<[observer |-> list[i], news |-> news]>> \o NotifyFromIndex(list, news, i + 1)

NotifyCalls(list, news) == NotifyFromIndex(list, news, 1)

\* AddObserver(observer): n.observers = append(n.observers, observer)
AddObserver(o) ==
    /\ Len(observers) < MaxObservers
    /\ observers' = Append(observers, o)
    /\ lastOp' = [op |-> "AddObserver", arg |-> o]
    /\ updates' = <<>>
    /\ removed' = {r \in removed : r.observer # o}
    /\ UNCHANGED agencyNews
    /\ UNCHANGED NotObs

\* RemoveObserver(observer)
RemoveObserver(o) ==
    /\ observers' = RemoveFrom(observers, o)
    /\ lastOp' = [op |-> "RemoveObserver", arg |-> o]
    /\ updates' = <<>>
    /\ removed' = {r \in removed : r.observer # o}
                    \cup {[observer |-> o, registered |-> Registrations(observers, o)]}
    /\ UNCHANGED agencyNews
    /\ UNCHANGED NotObs

\* SetNews(news): n.news = news; n.NotifyObservers()
SyncSetNews(news) ==
    /\ agencyNews' = news
    /\ updates' = NotifyCalls(observers, agencyNews')
    /\ lastOp' = [op |-> "SetNews", arg |-> news]
    /\ UNCHANGED <<observers, removed>>
    /\ UNCHANGED NotObs

ObsNext ==
    \/ \E o \in Observers : AddObserver(o)
    \/ \E o \in Observers : RemoveObserver(o)
    \/ \E news \in News : SyncSetNews(news)

\* ========================================================================
\* Mutex-guarded NotificationService (Observer в Golang.md, lines 292-328)
\* ========================================================================
Notifiers == 1..NumNotifiers
Subs == {"ivan", "maria"}
Messages == {"m1", "m2"}
NotifNoOp == [method |-> "none", arg |-> "none"]

\* NewNotificationService: an empty map and an unlocked mutex.
NotifInit ==
    /\ nsSubscribers = {}
    /\ nsMutex = 0
    /\ nsPc = [g \in Notifiers |-> "idle"]
    /\ nsOp = [g \in Notifiers |-> NotifNoOp]
    /\ nsPrinted = [g \in Notifiers |-> <<>>]
    /\ nsCalls = 0

NotNotif == <<onceVars, appleVars, chanVars, sqlVars, gormVars, wsVars, obsVars,
        builderVars, restVars, cacheVars, proxyVars, sortVars, kidVars, deferVars,
        cfgVars, dbVars, reqVars>>

\* A mutation of MutexFree: Lock never waits.
MutexAlwaysFree(m) == TRUE

\* n.mutex.Lock() returns only when no goroutine holds the mutex.
MutexFree(m) == m = 0

\* A goroutine calls AddSubscriber(sub), RemoveSubscriber(sub) or Notify(message)
\* and arrives at n.mutex.Lock().
NotifCall(g, method, arg) ==
    /\ nsPc[g] = "idle"
    /\ nsCalls < MaxNotifCalls
    /\ nsCalls' = nsCalls + 1
    /\ nsOp' = [nsOp EXCEPT ![g] = [method |-> method, arg |-> arg]]
    /\ nsPc' = [nsPc EXCEPT ![g] = "lock"]
    /\ UNCHANGED <<nsSubscribers, nsMutex, nsPrinted>>
    /\ UNCHANGED NotNotif

\* n.mutex.Lock()
NotifLock(g) ==
    /\ nsPc[g] = "lock"
    /\ MutexFree(nsMutex)
    /\ nsMutex' = g
    /\ nsPc' = [nsPc EXCEPT ![g] = "body"]
    /\ UNCHANGED <<nsSubscribers, nsOp, nsPrinted, nsCalls>>
    /\ UNCHANGED NotNotif

\* n.subscribers[sub] = true
AddSubscriber(g) ==
    /\ nsPc[g] = "body"
    /\ nsOp[g].method = "AddSubscriber"
    /\ nsSubscribers' = nsSubscribers \cup {nsOp[g].arg}
    /\ nsPc' = [nsPc EXCEPT ![g] = "unlock"]
    /\ UNCHANGED <<nsMutex, nsOp, nsPrinted, nsCalls>>
    /\ UNCHANGED NotNotif

\* delete(n.subscribers, sub)
RemoveSubscriber(g) ==
    /\ nsPc[g] = "body"
    /\ nsOp[g].method = "RemoveSubscriber"
    /\ nsSubscribers' = nsSubscribers \ {nsOp[g].arg}
    /\ nsPc' = [nsPc EXCEPT ![g] = "unlock"]
    /\ UNCHANGED <<nsMutex, nsOp, nsPrinted, nsCalls>>
    /\ UNCHANGED NotNotif

\* The keys the range loop of Notify has not produced yet.  A map is ranged
\* over in no particular order; each key present is produced once.
NotifyRemaining(g) == {sub \in nsSubscribers : \A i \in 1..Len(nsPrinted[g]) : nsPrinted[g][i] # sub}

\* One iteration of the loop of Notify: fmt.Printf for the next key.
NotifyPrint(g) ==
    /\ nsPc[g] = "body"
    /\ nsOp[g].method = "Notify"
    /\ \E sub \in NotifyRemaining(g) :
          nsPrinted' = [nsPrinted EXCEPT ![g] = Append(@, sub)]
    /\ UNCHANGED <<nsSubscribers, nsMutex, nsPc, nsOp, nsCalls>>
    /\ UNCHANGED NotNotif

\* The loop of Notify ends when every key has been produced.
NotifyDone(g) ==
    /\ nsPc[g] = "body"
    /\ nsOp[g].method = "Notify"
    /\ NotifyRemaining(g) = {}
    /\ nsPc' = [nsPc EXCEPT ![g] = "unlock"]
    /\ UNCHANGED <<nsSubscribers, nsMutex, nsOp, nsPrinted, nsCalls>>
    /\ UNCHANGED NotNotif

\* defer n.mutex.Unlock() runs as the method returns; the call is over.
NotifUnlock(g) ==
    /\ nsPc[g] = "unlock"
    /\ nsMutex' = 0
    /\ nsPc' = [nsPc EXCEPT ![g] = "idle"]
    /\ nsOp' = [nsOp EXCEPT ![g] = NotifNoOp]
    /\ nsPrinted' = [nsPrinted EXCEPT ![g] = <<>>]
    /\ UNCHANGED <<nsSubscribers, nsCalls>>
    /\ UNCHANGED NotNotif

NotifNext ==
    \/ \E g \in Notifiers, sub \in Subs : NotifCall(g, "AddSubscriber", sub)
    \/ \E g \in Notifiers, sub \in Subs : NotifCall(g, "RemoveSubscriber", sub)
    \/ \E g \in Notifiers, message \in Messages : NotifCall(g, "Notify", message)
    \/ \E g \in Notifiers : NotifLock(g)
    \/ \E g \in Notifiers : AddSubscriber(g)
    \/ \E g \in Notifiers : RemoveSubscriber(g)
    \/ \E g \in Notifiers : NotifyPrint(g)
    \/ \E g \in Notifiers : NotifyDone(g)
    \/ \E g \in Notifiers : NotifUnlock(g)

\* ========================================================================
\* Validating UserBuilder (Builder в Golang.md, lines 160-226)
\* ========================================================================
\* Strings are sequences of bytes, so that len and strings.Contains are computed.
Names == {<<"A">>, <<"I", "v", "a", "n">>}
Emails == {<<>>, <<"i", "n", "v">>, <<"i", "@", "e">>}
Ages == {-1, 25, 151}
Ids == {-1, 1}

NoError == "nil"
ErrName == "name too short"     \* errors.New("имя должно быть длиной не менее 2 символов")
ErrEmail == "invalid email"     \* errors.New("некорректный email")
ErrAge == "age out of range"    \* errors.New("возраст должен быть в диапазоне 0-150")
ErrID == "negative ID"          \* errors.New("ID не может быть отрицательным")

\* User{}: the zero value of the struct.
ZeroUser == [ID |-> 0, Name |-> <<>>, Email |-> <<>>, Age |-> 0, CreatedAt |-> "zero"]
NoResult == [user |-> ZeroUser, err |-> "none"]

\* NewUserBuilder(): a zero User but for CreatedAt: time.Now(), and a nil err.
BuilderInit ==
    /\ ubUser = [ZeroUser EXCEPT !.CreatedAt = "now"]
    /\ ubErr = NoError
    /\ ubChain = <<>>
    /\ ubPc = "building"
    /\ ubResult = NoResult

NotBuilder == <<onceVars, appleVars, chanVars, sqlVars, gormVars, wsVars, obsVars,
        notifVars, restVars, cacheVars, proxyVars, sortVars, kidVars, deferVars,
        cfgVars, dbVars, reqVars>>

\* strings.Contains(email, "@")
ContainsAt(email) == \E i \in 1..Len(email) : email[i] = "@"

isValidEmail(email) == Len(email) > 0 /\ ContainsAt(email)

\* The error a setter finds in its argument, NoError when the argument is valid.
Validate(setter, arg) ==
    CASE setter = "SetName" -> IF Len(arg) < 2 THEN ErrName ELSE NoError
      [] setter = "SetEmail" -> IF ~isValidEmail(arg) THEN ErrEmail ELSE NoError
      [] setter = "SetAge" -> IF arg < 0 \/ arg > 150 THEN ErrAge ELSE NoError
      [] setter = "SetID" -> IF arg < 0 THEN ErrID ELSE NoError

\* The field of User a setter assigns.
FieldOf(setter) ==
    CASE setter = "SetName" -> "Name"
      [] setter = "SetEmail" -> "Email"
      [] setter = "SetAge" -> "Age"
      [] setter = "SetID" -> "ID"

\* SetName, SetEmail, SetAge, SetID: an invalid argument is recorded in b.err
\* and the field is left alone; a valid one is stored and b.err is left alone.
Set(setter, arg) ==
    /\ Len(ubChain) < MaxSetterCalls
    /\ IF Validate(setter, arg) # NoError
          THEN /\ ubErr' = Validate(setter, arg)
               /\ ubUser' = ubUser
          ELSE /\ ubUser' = [ubUser EXCEPT ![FieldOf(setter)] = arg]
               /\ ubErr' = ubErr
    /\ ubChain' = Append(ubChain, [setter |-> setter, arg |-> arg])
    /\ ubPc' = "building"
    /\ UNCHANGED ubResult
    /\ UNCHANGED NotBuilder

SetName(name) == Set("SetName", name)
SetEmail(email) == Set("SetEmail", email)
SetAge(age) == Set("SetAge", age)
SetID(id) == Set("SetID", id)

\* A mutation of BuildResult: the partly built user is returned with the error.
BuildResultPartial(user, err) == [user |-> user, err |-> err]

\* What Build returns for b.user and b.err.
BuildResult(user, err) ==
    IF err # NoError THEN [user |-> ZeroUser, err |-> err]
                     ELSE [user |-> user, err |-> NoError]

Build ==
    /\ ubPc = "building"
    /\ ubResult' = BuildResult(ubUser, ubErr)
    /\ ubPc' = "built"
    /\ UNCHANGED <<ubUser, ubErr, ubChain>>
    /\ UNCHANGED NotBuilder

BuilderNext ==
    \/ \E name \in Names : SetName(name)
    \/ \E email \in Emails : SetEmail(email)
    \/ \E age \in Ages : SetAge(age)
    \/ \E id \in Ids : SetID(id)
    \/ Build

\* ========================================================================
\* In-memory REST API: usersHandler, userHandler (part_003, lines 72-147)
\* ========================================================================
\* net/http serves every request on a goroutine of its own.
Handlers == {"h1", "h2"}
PathIds == {"", "1"}
Methods == {"GET", "POST", "PUT", "DELETE", "PATCH"}

StatusOK == 200
StatusCreated == 201
StatusNoContent == 204
StatusBadRequest == 400
StatusNotFound == 404
StatusMethodNotAllowed == 405

\* User{}: the zero value, which is also what a request without a body decodes to.
ZeroRestUser == [ID |-> "", Name |-> "", Email |-> ""]

\* The values json.Decode produces from the request bodies.
DecodedUsers ==
    { [ID |-> "",  Name |-> "Alice", Email |-> "alice@example.com"],
      [ID |-> "1", Name |-> "Alice", Email |-> "alice@example.com"],
      [ID |-> "1", Name |-> "Bob",   Email |-> "bob@example.com"] }

\* A request body: JSON that decodes into a User, or something that does not.
Bodies == [valid : {TRUE}, user : DecodedUsers] \cup {[valid |-> FALSE, user |-> ZeroRestUser]}
NoBody == [valid |-> FALSE, user |-> ZeroRestUser]

\* The requests: route is the pattern the mux matched, id what is left of the
\* path after "/users/".  A body is read by POST /users and PUT /users/{id} only.
Requests ==
    [method : {"POST"}, route : {"/users"}, id : {""}, body : Bodies]
    \cup [method : Methods \ {"POST"}, route : {"/users"}, id : {""}, body : {NoBody}]
    \cup [method : {"PUT"}, route : {"/users/"}, id : PathIds \ {""}, body : Bodies]
    \cup [method : {"PUT"}, route : {"/users/"}, id : {""}, body : {NoBody}]
    \cup [method : Methods \ {"PUT"}, route : {"/users/"}, id : PathIds, body : {NoBody}]

NoRequest == [method |-> "none", route |-> "none", id |-> "", body |-> NoBody, n |-> 0]
NoResponse == [status |-> 0, user |-> ZeroRestUser, list |-> {}, error |-> ""]
NoWrite == [op |-> "none", user |-> ZeroRestUser]

\* var users = make(map[string]User); nothing is being served.
RestInit ==
    /\ users = <<>>
    /\ restPc = [h \in Handlers |-> "idle"]
    /\ restReq = [h \in Handlers |-> NoRequest]
    /\ restResp = [h \in Handlers |-> NoResponse]
    /\ restLast = [id \in PathIds |-> NoWrite]
    /\ restServed = 0
    /\ restFatal = FALSE

NotRest == <<onceVars, appleVars, chanVars, sqlVars, gormVars, wsVars, obsVars,
        notifVars, builderVars, cacheVars, proxyVars, sortVars, kidVars, deferVars,
        cfgVars, dbVars, reqVars>>

\* _, exists := users[id]
Exists(m, id) == id \in DOMAIN m

\* users[id] = user
MapStore(m, id, user) == [k \in DOMAIN m \cup {id} |-> IF k = id THEN user ELSE m[k]]

\* A mutation of MapDelete: the entry stays in the map.
MapDeleteNothing(m, id) == m

\* delete(users, id)
MapDelete(m, id) == [k \in DOMAIN m \ {id} |-> m[k]]

\* http.Error(w, error, code)
HttpError(error, code) == [NoResponse EXCEPT !.status = code, !.error = error]

\* json.NewEncoder(w).Encode(user) after an optional w.WriteHeader(code)
EncodeUser(code, user) == [NoResponse EXCEPT !.status = code, !.user = user]

\* A mutation of WithPathId: the id of the body is kept.
WithBodyId(user, id) == user

\* user.ID = id
WithPathId(user, id) == [user EXCEPT !.ID = id]

\* A mutation of Handling: a handler runs only while no other one does.
HandlingAlone(h, route, method) ==
    /\ ~restFatal
    /\ restPc[h] = "handle"
    /\ restReq[h].route = route
    /\ restReq[h].method = method
    /\ \A g \in Handlers \ {h} : restPc[g] = "idle"

\* The handler of goroutine h writes its response and returns.
Respond(h, resp) ==
    /\ restResp' = [restResp EXCEPT ![h] = resp]
    /\ restPc' = [restPc EXCEPT ![h] = "idle"]
    /\ restReq' = [restReq EXCEPT ![h].body = NoBody]

\* The server accepts a request and starts the handler of its route on a goroutine.
Serve(h, req) ==
    /\ ~restFatal
    /\ restPc[h] = "idle"
    /\ restServed < MaxRequests
    /\ restServed' = restServed + 1
    /\ restReq' = [restReq EXCEPT ![h] = [method |-> req.method, route |-> req.route,
                                           id |-> req.id, body |-> req.body,
                                           n |-> restServed + 1]]
    /\ restResp' = [restResp EXCEPT ![h] = NoResponse]
    /\ restPc' = [restPc EXCEPT ![h] = "handle"]
    /\ UNCHANGED <<users, restLast, restFatal>>
    /\ UNCHANGED NotRest

Handling(h, route, method) ==
    /\ ~restFatal
    /\ restPc[h] = "handle"
    /\ restReq[h].route = route
    /\ restReq[h].method = method

\* usersHandler, case http.MethodGet
usersHandlerGet(h) ==
    /\ Handling(h, "/users", "GET")
    /\ Respond(h, [NoResponse EXCEPT !.status = StatusOK,
                                     !.list = {<<k, users[k]>> : k \in DOMAIN users}])
    /\ UNCHANGED <<users, restLast, restServed, restFatal>>
    /\ UNCHANGED NotRest

\* usersHandler, case http.MethodPost
usersHandlerPost(h) ==
    /\ Handling(h, "/users", "POST")
    /\ LET user == restReq[h].body.user
       IN  IF ~restReq[h].body.valid
              THEN /\ Respond(h, HttpError("Invalid request", StatusBadRequest))
                   /\ UNCHANGED <<users, restLast>>
              ELSE /\ users' = MapStore(users, user.ID, user)
                   /\ restLast' = [restLast EXCEPT ![user.ID] = [op |-> "POST", user |-> user]]
                   /\ Respond(h, EncodeUser(StatusCreated, user))
    /\ UNCHANGED <<restServed, restFatal>>
    /\ UNCHANGED NotRest

\* usersHandler, default
usersHandlerDefault(h) ==
    /\ ~restFatal
    /\ restPc[h] = "handle"
    /\ restReq[h].route = "/users"
    /\ restReq[h].method \notin {"GET", "POST"}
    /\ Respond(h, HttpError("Method not allowed", StatusMethodNotAllowed))
    /\ UNCHANGED <<users, restLast, restServed, restFatal>>
    /\ UNCHANGED NotRest

\* userHandler: if id == ""
userHandlerNoId(h) ==
    /\ ~restFatal
    /\ restPc[h] = "handle"
    /\ restReq[h].route = "/users/"
    /\ restReq[h].id = ""
    /\ Respond(h, HttpError("ID is required", StatusBadRequest))
    /\ UNCHANGED <<users, restLast, restServed, restFatal>>
    /\ UNCHANGED NotRest

\* userHandler, case http.MethodGet
userHandlerGet(h) ==
    /\ Handling(h, "/users/", "GET")
    /\ restReq[h].id # ""
    /\ LET id == restReq[h].id
       IN  IF ~Exists(users, id)
              THEN Respond(h, HttpError("User not found", StatusNotFound))
              ELSE Respond(h, EncodeUser(StatusOK, users[id]))
    /\ UNCHANGED <<users, restLast, restServed, restFatal>>
    /\ UNCHANGED NotRest

\* userHandler, case http.MethodPut
userHandlerPut(h) ==
    /\ Handling(h, "/users/", "PUT")
    /\ restReq[h].id # ""
    /\ LET id == restReq[h].id
           user == WithPathId(restReq[h].body.user, id)
       IN  IF ~restReq[h].body.valid
              THEN /\ Respond(h, HttpError("Invalid request", StatusBadRequest))
                   /\ UNCHANGED <<users, restLast>>
              ELSE /\ users' = MapStore(users, id, user)
                   /\ restLast' = [restLast EXCEPT ![id] = [op |-> "PUT", user |-> user]]
                   /\ Respond(h, EncodeUser(StatusOK, user))
    /\ UNCHANGED <<restServed, restFatal>>
    /\ UNCHANGED NotRest

\* userHandler, case http.MethodDelete: if _, exists := users[id]; !exists
userHandlerDeleteCheck(h) ==
    /\ Handling(h, "/users/", "DELETE")
    /\ restReq[h].id # ""
    /\ IF ~Exists(users, restReq[h].id)
          THEN Respond(h, HttpError("User not found", StatusNotFound))
          ELSE /\ restPc' = [restPc EXCEPT ![h] = "delete"]
               /\ UNCHANGED <<restReq, restResp>>
    /\ UNCHANGED <<users, restLast, restServed, restFatal>>
    /\ UNCHANGED NotRest

\* userHandler, case http.MethodDelete: delete(users, id); w.WriteHeader(http.StatusNoContent)
userHandlerDelete(h) ==
    /\ ~restFatal
    /\ restPc[h] = "delete"
    /\ users' = MapDelete(users, restReq[h].id)
    /\ restLast' = [restLast EXCEPT ![restReq[h].id] = [op |-> "DELETE", user |-> ZeroRestUser]]
    /\ Respond(h, [NoResponse EXCEPT !.status = StatusNoContent])
    /\ UNCHANGED <<restServed, restFatal>>
    /\ UNCHANGED NotRest

\* userHandler, default
userHandlerDefault(h) ==
    /\ ~restFatal
    /\ restPc[h] = "handle"
    /\ restReq[h].route = "/users/"
    /\ restReq[h].id # ""
    /\ restReq[h].method \notin {"GET", "PUT", "DELETE"}
    /\ Respond(h, HttpError("Method not allowed", StatusMethodNotAllowed))
    /\ UNCHANGED <<users, restLast, restServed, restFatal>>
    /\ UNCHANGED NotRest

\* The goroutine's next step writes the map.
AboutToWrite(h) ==
    \/ restPc[h] = "delete"
    \/ /\ restPc[h] = "handle"
       /\ restReq[h].body.valid
       /\ \/ restReq[h].route = "/users" /\ restReq[h].method = "POST"
          \/ restReq[h].route = "/users/" /\ restReq[h].method = "PUT" /\ restReq[h].id # ""

\* The goroutine's next step reads the map.
AboutToRead(h) ==
    /\ restPc[h] = "handle"
    /\ \/ restReq[h].route = "/users" /\ restReq[h].method = "GET"
       \/ /\ restReq[h].route = "/users/" /\ restReq[h].id # ""
          /\ restReq[h].method \in {"GET", "DELETE"}

\* Nothing guards users: when two goroutines are at the map together and one
\* of them writes, the run-time may stop the process (fatal error: concurrent
\* map writes / concurrent map read and map write).
FatalError ==
    /\ ~restFatal
    /\ \E g, h \in Handlers :
          g # h /\ AboutToWrite(g) /\ (AboutToWrite(h) \/ AboutToRead(h))
    /\ restFatal' = TRUE
    /\ UNCHANGED <<users, restPc, restReq, restResp, restLast, restServed>>
    /\ UNCHANGED NotRest

RestNext ==
    \/ \E h \in Handlers, req \in Requests : Serve(h, req)
    \/ \E h \in Handlers : usersHandlerGet(h)
    \/ \E h \in Handlers : usersHandlerPost(h)
    \/ \E h \in Handlers : usersHandlerDefault(h)
    \/ \E h \in Handlers : userHandlerNoId(h)
    \/ \E h \in Handlers : userHandlerGet(h)
    \/ \E h \in Handlers : userHandlerPut(h)
    \/ \E h \in Handlers : userHandlerDeleteCheck(h)
    \/ \E h \in Handlers : userHandlerDelete(h)
    \/ \E h \in Handlers : userHandlerDefault(h)
    \/ FatalError

\* ========================================================================
\* CacheDecorator (Observer в Golang.md, lines 733-755), used from one
\* goroutine as in its main (lines 768-787)
\* ========================================================================
Urls == {"u1", "u2"}
\* What c.client.Get can return: a response and a nil error, a nil response
\* and an error, or (a failed redirect check) a response and an error.
ClientOutcomes == {"ok", "error", "errorWithResponse"}
NoReturn == [url |-> "none", resp |-> Nil, err |-> "none"]

\* NewCacheDecorator: an empty map.
CacheInit ==
    /\ cache = <<>>
    /\ cacheRet = NoReturn
    /\ cacheGets = 0
    /\ clientCalls = [url \in Urls |-> 0]
    /\ respMade = 0
    /\ cacheOk = [url \in Urls |-> Nil]

NotCache == <<onceVars, appleVars, chanVars, sqlVars, gormVars, wsVars, obsVars,
        notifVars, builderVars, restVars, proxyVars, sortVars, kidVars, deferVars,
        cfgVars, dbVars, reqVars>>

\* A mutation of CacheAfter: the response is cached whatever the error.
CacheAlways(m, url, resp, err) == [k \in DOMAIN m \cup {url} |-> IF k = url THEN resp ELSE m[k]]

\* if err == nil { c.cache[url] = resp }
CacheAfter(m, url, resp, err) ==
    IF err = "nil" THEN [k \in DOMAIN m \cup {url} |-> IF k = url THEN resp ELSE m[k]]
                   ELSE m

\* The first Get(url) that returns a nil error is remembered.
FirstOk(url, resp, err) ==
    IF err = "nil" /\ cacheOk[url] = Nil THEN [cacheOk EXCEPT ![url] = resp] ELSE cacheOk

\* Get(url) when c.cache[url] is present: the cached response is returned.
CacheHit(url) ==
    /\ cacheGets < MaxCacheGets
    /\ url \in DOMAIN cache
    /\ cacheRet' = [url |-> url, resp |-> cache[url], err |-> "nil"]
    /\ cacheGets' = cacheGets + 1
    /\ cacheOk' = FirstOk(url, cache[url], "nil")
    /\ UNCHANGED <<cache, clientCalls, respMade>>
    /\ UNCHANGED NotCache

\* Get(url) when c.cache[url] is absent: the wrapped client is called, its
\* response is cached if err == nil, and both are returned.
CacheMiss(url, outcome) ==
    /\ cacheGets < MaxCacheGets
    /\ url \notin DOMAIN cache
    /\ LET resp == IF outcome = "error" THEN Nil ELSE respMade + 1
           err == IF outcome = "ok" THEN "nil" ELSE "error"
       IN  /\ respMade' = IF outcome = "error" THEN respMade ELSE respMade + 1
           /\ clientCalls' = [clientCalls EXCEPT ![url] = @ + 1]
           /\ cache' = CacheAfter(cache, url, resp, err)
           /\ cacheRet' = [url |-> url, resp |-> resp, err |-> err]
           /\ cacheOk' = FirstOk(url, resp, err)
    /\ cacheGets' = cacheGets + 1
    /\ UNCHANGED NotCache

CacheNext ==
    \/ \E url \in Urls : CacheHit(url)
    \/ \E url \in Urls, outcome \in ClientOutcomes : CacheMiss(url, outcome)

\* ========================================================================
\* ImageProxy (part_001, lines 720-740), used as in its main (lines 746-755)
\* ========================================================================
Proxies == {"p1", "p2"}
ImageNames == {"photo.jpg", "cat.png", "map.gif"}
NoDisplay == <<>>
\* The nil *Image: pointer Nil, pointing to nothing.
NilImage == [ptr |-> Nil, name |-> ""]

\* No proxy is constructed yet.
ProxyInit ==
    /\ proxyName = [p \in Proxies |-> "none"]
    /\ realImage = [p \in Proxies |-> NilImage]
    /\ displayCalls = [p \in Proxies |-> 0]
    /\ displayRet = [p \in Proxies |-> NoDisplay]
    /\ loadings = [p \in Proxies |-> 0]
    /\ imagesMade = <<>>

NotProxy == <<onceVars, appleVars, chanVars, sqlVars, gormVars, wsVars, obsVars,
        notifVars, builderVars, restVars, cacheVars, sortVars, kidVars, deferVars,
        cfgVars, dbVars, reqVars>>

\* Image.Display: fmt.Sprintf of the fixed text and i.name
ImageDisplay(name) == <<"Display: ", name>>

\* A mutation of MustLoad: the image is loaded on every call.
MustLoadAlways(image) == TRUE

\* if p.realImage == nil
MustLoad(image) == image.ptr = Nil

\* proxyImage := &proxy.ImageProxy{name: name}
NewImageProxy(p, name) ==
    /\ proxyName[p] = "none"
    /\ proxyName' = [proxyName EXCEPT ![p] = name]
    /\ UNCHANGED <<realImage, displayCalls, displayRet, loadings, imagesMade>>
    /\ UNCHANGED NotProxy

\* Display when the image has to be created: it is allocated with the
\* proxy's name, the loading message is printed, its Display is returned.
DisplayLoading(p) ==
    /\ proxyName[p] # "none"
    /\ displayCalls[p] < MaxDisplays
    /\ MustLoad(realImage[p])
    /\ LET image == [ptr |-> Len(imagesMade) + 1, name |-> proxyName[p]]
       IN  /\ realImage' = [realImage EXCEPT ![p] = image]
           /\ imagesMade' = Append(imagesMade, p)
           /\ displayRet' = [displayRet EXCEPT ![p] = ImageDisplay(image.name)]
    /\ loadings' = [loadings EXCEPT ![p] = @ + 1]
    /\ displayCalls' = [displayCalls EXCEPT ![p] = @ + 1]
    /\ UNCHANGED proxyName
    /\ UNCHANGED NotProxy

\* Display when the image exists: its Display is returned.
DisplayLoaded(p) ==
    /\ proxyName[p] # "none"
    /\ displayCalls[p] < MaxDisplays
    /\ ~MustLoad(realImage[p])
    /\ displayRet' = [displayRet EXCEPT ![p] = ImageDisplay(realImage[p].name)]
    /\ displayCalls' = [displayCalls EXCEPT ![p] = @ + 1]
    /\ UNCHANGED <<proxyName, realImage, loadings, imagesMade>>
    /\ UNCHANGED NotProxy

ProxyNext ==
    \/ \E p \in Proxies, name \in ImageNames : NewImageProxy(p, name)
    \/ \E p \in Proxies : DisplayLoading(p)
    \/ \E p \in Proxies : DisplayLoaded(p)

\* ========================================================================
\* Sorting strategies: BubbleSort, QuickSort, Sorter (part_006, lines 54-125)
\* ========================================================================
Strategies == {"BubbleSort", "QuickSort"}
SortValues == {-1, 0, 2}
\* The slices of at most MaxSliceLen elements.
Slices == UNION {[1..n -> SortValues] : n \in 0..MaxSliceLen}
NotSorted == [data |-> <<>>, result |-> <<>>, done |-> FALSE]

\* main: NewSorter(&strategy.BubbleSort{}); nothing sorted yet.
SortInit ==
    /\ strategy = "BubbleSort"
    /\ sortData = <<>>
    /\ sortResult = <<>>
    /\ sortedBy = [s \in Strategies |-> NotSorted]

NotSort == <<onceVars, appleVars, chanVars, sqlVars, gormVars, wsVars, obsVars,
        notifVars, builderVars, restVars, cacheVars, proxyVars, kidVars, deferVars,
        cfgVars, dbVars, reqVars>>

\* arr[i] and arr[i], arr[j] = arr[j], arr[i], with Go's indices from 0.
At(arr, i) == arr[i + 1]
Swap(arr, i, j) == [arr EXCEPT ![i + 1] = arr[j + 1], ![j + 1] = arr[i + 1]]

\* BubbleSort.Sort: for j := 0; j < n-i-1; j++ { if result[j] > result[j+1] { swap } }
RECURSIVE BubbleInner(_, _, _, _)
BubbleInner(result, n, i, j) ==
    IF j < n - i - 1
       THEN BubbleInner(IF At(result, j) > At(result, j + 1) THEN Swap(result, j, j + 1)
                                                             ELSE result,
                        n, i, j + 1)
       ELSE result

\* BubbleSort.Sort: for i := 0; i < n-1; i++
RECURSIVE BubbleOuter(_, _, _)
BubbleOuter(result, n, i) ==
    IF i < n - 1 THEN BubbleOuter(BubbleInner(result, n, i, 0), n, i + 1)
                 ELSE result

\* BubbleSort.Sort: the copy of data, sorted.
BubbleSort(data) == BubbleOuter(data, Len(data), 0)

\* A mutation of BelowPivot: the comparison is turned round.
AbovePivot(x, pivot) == x >= pivot

\* partition: if arr[j] <= pivot
BelowPivot(x, pivot) == x <= pivot

\* partition: for j := low; j < high; j++ { if arr[j] <= pivot { i++; swap(i, j) } }
\* The value is the array and i after the loop.
RECURSIVE PartitionLoop(_, _, _, _, _)
PartitionLoop(arr, high, pivot, i, j) ==
    IF j < high
       THEN IF BelowPivot(At(arr, j), pivot)
               THEN PartitionLoop(Swap(arr, i + 1, j), high, pivot, i + 1, j + 1)
               ELSE PartitionLoop(arr, high, pivot, i, j + 1)
       ELSE [arr |-> arr, i |-> i]

\* partition: the array after partitioning and the index of the pivot.
partition(arr, low, high) ==
    LET loop == PartitionLoop(arr, high, At(arr, high), low - 1, low)
    IN  [arr |-> Swap(loop.arr, loop.i + 1, high), pivot |-> loop.i + 1]

RECURSIVE quickSort(_, _, _)
quickSort(arr, low, high) ==
    IF low < high
       THEN LET p == partition(arr, low, high)
            IN  quickSort(quickSort(p.arr, low, p.pivot - 1), p.pivot + 1, high)
       ELSE arr

\* QuickSort.Sort: the copy of data, sorted.
QuickSort(data) == quickSort(data, 0, Len(data) - 1)

\* s.strategy.Sort(data)
StrategySort(s, data) == IF s = "BubbleSort" THEN BubbleSort(data) ELSE QuickSort(data)

\* Sorter.SetStrategy
SetStrategy(s) ==
    /\ strategy' = s
    /\ UNCHANGED <<sortData, sortResult, sortedBy>>
    /\ UNCHANGED NotSort

\* Sorter.Sort
SorterSort(data) ==
    /\ sortData' = data
    /\ sortResult' = StrategySort(strategy, data)
    /\ sortedBy' = [s \in Strategies |->
                       IF s = strategy
                          THEN [data |-> data, result |-> StrategySort(s, data), done |-> TRUE]
                          ELSE IF sortedBy[s].data = data THEN sortedBy[s] ELSE NotSorted]
    /\ UNCHANGED strategy
    /\ UNCHANGED NotSort

SortNext ==
    \/ \E s \in Strategies : SetStrategy(s)
    \/ \E data \in Slices : SorterSort(data)

\* ========================================================================
\* Chain of responsibility: Kid.AskForApple (Patterns_programming.go,
\* lines 198-218)
\* ========================================================================
Kids == {1, 2, 3}
\* "Вася", "Петя", "Маша"
KidNames == {"Vasya", "Petya", "Masha"}

\* main before any Kid is constructed.
KidInit ==
    /\ kidName = [k \in Kids |-> ""]
    /\ nextKid = [k \in Kids |-> Nil]
    /\ kidPhase = "building"
    /\ kidCur = Nil
    /\ asked = <<>>
    /\ kidOut = <<>>

NotKid == <<onceVars, appleVars, chanVars, sqlVars, gormVars, wsVars, obsVars,
        notifVars, builderVars, restVars, cacheVars, proxyVars, sortVars, deferVars,
        cfgVars, dbVars, reqVars>>

\* A mutation of WantsApple: nobody takes the apple.
WantsNothing(name) == FALSE

\* if k.name == "Маша"
WantsApple(name) == name = "Masha"

\* kid := &Kid{name: name}
NewKid(k, name) ==
    /\ kidPhase = "building"
    /\ kidName[k] = ""
    /\ kidName' = [kidName EXCEPT ![k] = name]
    /\ UNCHANGED <<nextKid, kidPhase, kidCur, asked, kidOut>>
    /\ UNCHANGED NotKid

\* kid.nextKid = next
SetNextKid(k, next) ==
    /\ kidPhase = "building"
    /\ kidName[k] # "" /\ kidName[next] # ""
    /\ nextKid[k] = Nil
    /\ nextKid' = [nextKid EXCEPT ![k] = next]
    /\ UNCHANGED <<kidName, kidPhase, kidCur, asked, kidOut>>
    /\ UNCHANGED NotKid

\* main: kid.AskForApple()
Ask(k) ==
    /\ kidPhase = "building"
    /\ kidName[k] # ""
    /\ kidPhase' = "asking"
    /\ kidCur' = k
    /\ asked' = <<k>>
    /\ UNCHANGED <<kidName, nextKid, kidOut>>
    /\ UNCHANGED NotKid

\* AskForApple, first branch: the kid takes the apple and the call returns.
KidTakes ==
    /\ kidPhase = "asking"
    /\ WantsApple(kidName[kidCur])
    /\ kidOut' = Append(kidOut, [kid |-> kidCur, says |-> "wants"])
    /\ kidPhase' = "done"
    /\ kidCur' = Nil
    /\ UNCHANGED <<kidName, nextKid, asked>>
    /\ UNCHANGED NotKid

\* AskForApple, second branch: the kid declines and asks its nextKid.
KidForwards ==
    /\ kidPhase = "asking"
    /\ ~WantsApple(kidName[kidCur])
    /\ nextKid[kidCur] # Nil
    /\ Len(asked) < MaxAsks
    /\ kidOut' = Append(kidOut, [kid |-> kidCur, says |-> "declines"])
    /\ kidCur' = nextKid[kidCur]
    /\ asked' = Append(asked, nextKid[kidCur])
    /\ UNCHANGED <<kidName, nextKid, kidPhase>>
    /\ UNCHANGED NotKid

\* A mutation of KidSilent: the last kid says that nobody took the apple.
KidReports ==
    /\ kidPhase = "asking"
    /\ ~WantsApple(kidName[kidCur])
    /\ nextKid[kidCur] = Nil
    /\ kidOut' = Append(kidOut, [kid |-> kidCur, says |-> "nobody"])
    /\ kidPhase' = "done"
    /\ kidCur' = Nil
    /\ UNCHANGED <<kidName, nextKid, asked>>
    /\ UNCHANGED NotKid

\* AskForApple, neither branch: the last kid of the chain prints nothing and
\* the call returns.
KidSilent ==
    /\ kidPhase = "asking"
    /\ ~WantsApple(kidName[kidCur])
    /\ nextKid[kidCur] = Nil
    /\ kidPhase' = "done"
    /\ kidCur' = Nil
    /\ UNCHANGED <<kidName, nextKid, asked, kidOut>>
    /\ UNCHANGED NotKid

KidNext ==
    \/ \E k \in Kids, name \in KidNames : NewKid(k, name)
    \/ \E k, next \in Kids : SetNextKid(k, next)
    \/ \E k \in Kids : Ask(k)
    \/ KidTakes
    \/ KidForwards
    \/ KidSilent

\* ========================================================================
\* defer and named results: example, getValue, process, tricky,
\* safeOperation (Взаимодействие defer и именованного return в Golang.md)
\* ========================================================================
\* The bodies of the functions, statement by statement.  A defer statement
\* names the deferred closure and, for tricky, the variable passed to it.
Program ==
    [ example       |-> << [op |-> "result =", n |-> 42],
                           [op |-> "return", n |-> 0] >>,
      getValue      |-> << [op |-> "defer", n |-> 0, closure |-> "result += 10"],
                           [op |-> "result =", n |-> 5],
                           [op |-> "return", n |-> 0] >>,
      process       |-> << [op |-> "defer", n |-> 0, closure |-> "value *= 2"],
                           [op |-> "result =", n |-> 10],
                           [op |-> "return", n |-> 0] >>,
      tricky        |-> << [op |-> "i =", n |-> 0],
                           [op |-> "defer", n |-> 0, closure |-> "result = x"],
                           [op |-> "i =", n |-> 10],
                           [op |-> "return", n |-> 0] >>,
      safeOperation |-> << [op |-> "defer", n |-> 0, closure |-> "Println"],
                           [op |-> "result =", n |-> 42],
                           [op |-> "return", n |-> 0] >> ]

Functions == DOMAIN Program
NotCalled == [done |-> FALSE, value |-> 0]

\* main has called nothing yet.
DeferInit ==
    /\ dfFn = "none"
    /\ dfPc = 0
    /\ dfResult = 0
    /\ dfI = 0
    /\ dfStack = <<>>
    /\ dfPrinted = 0
    /\ dfRet = [f \in Functions |-> NotCalled]

NotDefer == <<onceVars, appleVars, chanVars, sqlVars, gormVars, wsVars, obsVars,
        notifVars, builderVars, restVars, cacheVars, proxyVars, sortVars, kidVars,
        cfgVars, dbVars, reqVars>>

\* main calls f: the named result starts at its zero value.
Call(f) ==
    /\ dfFn = "none"
    /\ dfFn' = f
    /\ dfPc' = 1
    /\ dfResult' = 0
    /\ dfI' = 0
    /\ dfStack' = <<>>
    /\ dfPrinted' = 0
    /\ UNCHANGED dfRet
    /\ UNCHANGED NotDefer

Running(op) ==
    /\ dfFn # "none"
    /\ dfPc # 0
    /\ Program[dfFn][dfPc].op = op

\* result = n (value = n in process)
AssignResult ==
    /\ Running("result =")
    /\ dfResult' = Program[dfFn][dfPc].n
    /\ dfPc' = dfPc + 1
    /\ UNCHANGED <<dfFn, dfI, dfStack, dfPrinted, dfRet>>
    /\ UNCHANGED NotDefer

\* i := n, i = n
AssignI ==
    /\ Running("i =")
    /\ dfI' = Program[dfFn][dfPc].n
    /\ dfPc' = dfPc + 1
    /\ UNCHANGED <<dfFn, dfResult, dfStack, dfPrinted, dfRet>>
    /\ UNCHANGED NotDefer

\* A mutation of DeferredArg: the closure reads i when it runs.
DeferredArgLate(atDefer, atRun) == atRun

\* The argument x of a deferred call: the value i had when the defer
\* statement executed (atDefer), not the one it has when the call runs.
DeferredArg(atDefer, atRun) == atDefer

\* defer func(...) {...}(...): the call is registered with its argument evaluated.
Defer ==
    /\ Running("defer")
    /\ dfStack' = Append(dfStack, [closure |-> Program[dfFn][dfPc].closure, x |-> dfI])
    /\ dfPc' = dfPc + 1
    /\ UNCHANGED <<dfFn, dfResult, dfI, dfPrinted, dfRet>>
    /\ UNCHANGED NotDefer

\* return: the result variable is what will be returned; the deferred calls
\* run next.
Return ==
    /\ Running("return")
    /\ dfPc' = 0
    /\ UNCHANGED <<dfFn, dfResult, dfI, dfStack, dfPrinted, dfRet>>
    /\ UNCHANGED NotDefer

\* What a deferred closure makes of the result variable.
ClosureResult(call, result, i) ==
    CASE call.closure = "result += 10" -> result + 10
      [] call.closure = "value *= 2" -> result * 2
      [] call.closure = "result = x" -> DeferredArg(call.x, i)
      [] call.closure = "Println" -> result

\* After return, the deferred call registered last runs.
RunDeferred ==
    /\ dfFn # "none"
    /\ dfPc = 0
    /\ dfStack # <<>>
    /\ LET call == dfStack[Len(dfStack)]
       IN  /\ dfResult' = ClosureResult(call, dfResult, dfI)
           /\ dfPrinted' = IF call.closure = "Println" THEN dfPrinted + 1 ELSE dfPrinted
    /\ dfStack' = SubSeq(dfStack, 1, Len(dfStack) - 1)
    /\ UNCHANGED <<dfFn, dfPc, dfI, dfRet>>
    /\ UNCHANGED NotDefer

\* When no deferred call is left the caller receives the result variable.
Leave ==
    /\ dfFn # "none"
    /\ dfPc = 0
    /\ dfStack = <<>>
    /\ dfRet' = [dfRet EXCEPT ![dfFn] = [done |-> TRUE, value |-> dfResult]]
    /\ dfFn' = "none"
    /\ UNCHANGED <<dfPc, dfResult, dfI, dfStack, dfPrinted>>
    /\ UNCHANGED NotDefer

DeferNext ==
    \/ \E f \in Functions : Call(f)
    \/ AssignResult
    \/ AssignI
    \/ Defer
    \/ Return
    \/ RunDeferred
    \/ Leave

\* ========================================================================
\* Sorting strategies with a configuration: SortConfig, QuickSort with a
\* threshold, CreateStrategy (part_006, lines 166-303)
\* ========================================================================
Algorithms == {"bubble", "quick", "merge"}
Thresholds == {-1, 0, 1, 2, 3, 5}
\* The slices of at most MaxCfgLen elements.
CfgSlices == UNION {[1..n -> SortValues] : n \in 0..MaxCfgLen}

\* main: NewSorter(CreateStrategy(configBubble)); nothing sorted yet.
CfgInit ==
    /\ cfgStrategy = "bubble"
    /\ cfgData = <<>>
    /\ cfgThreshold = 0
    /\ cfgResult = <<>>
    /\ cfgBy = "none"
    /\ cfgCalls = {}
    /\ cfgPanic = "none"

NotCfg == <<onceVars, appleVars, chanVars, sqlVars, gormVars, wsVars, obsVars,
        notifVars, builderVars, restVars, cacheVars, proxyVars, sortVars, kidVars,
        deferVars, dbVars, reqVars>>

\* CreateStrategy: the switch on config.Algorithm; default returns nil.
CreateStrategy(algorithm) ==
    IF algorithm = "bubble" THEN "bubble"
    ELSE IF algorithm = "quick" THEN "quick"
    ELSE "nil"

\* A mutation of InnerBound: low is left out of the bound.
InnerBoundNoLow(low, high, i) == high - i

\* bubbleSort: the bound of the inner loop, j < high-i+low
InnerBound(low, high, i) == high - i + low

\* bubbleSort: for j := low; j < high-i+low; j++ { if arr[j] > arr[j+1] { swap } }
\* st.touched collects the indices the loop reads or writes; an index that
\* the slice does not have is a run-time panic (index out of range).
RECURSIVE bubbleInner(_, _, _, _, _)
bubbleInner(st, low, high, i, j) ==
    IF st.panicked \/ ~(j < InnerBound(low, high, i))
       THEN st
       ELSE IF j < 0 \/ j + 1 > Len(st.arr) - 1
               THEN [st EXCEPT !.touched = @ \cup {j, j + 1}, !.panicked = TRUE]
               ELSE bubbleInner([arr |-> IF At(st.arr, j) > At(st.arr, j + 1)
                                            THEN Swap(st.arr, j, j + 1)
                                            ELSE st.arr,
                                 touched |-> st.touched \cup {j, j + 1},
                                 panicked |-> FALSE],
                                low, high, i, j + 1)

\* bubbleSort: for i := low; i < high; i++
RECURSIVE bubbleOuter(_, _, _, _)
bubbleOuter(st, low, high, i) ==
    IF ~st.panicked /\ i < high
       THEN bubbleOuter(bubbleInner(st, low, high, i, low), low, high, i + 1)
       ELSE st

\* bubbleSort(arr, low, high): the slice afterwards and the indices touched.
bubbleSort(arr, low, high) ==
    bubbleOuter([arr |-> arr, touched |-> {}, panicked |-> FALSE], low, high, low)

\* quickSort(arr, low, high, threshold); partition is the same text as in the
\* first example (lines 227-238 repeat lines 89-100).  run.calls collects
\* the bubbleSort calls made.
RECURSIVE quickSortThreshold(_, _, _, _)
quickSortThreshold(run, low, high, threshold) ==
    IF run.panicked \/ ~(low < high)
       THEN run
       ELSE IF high - low < threshold
               THEN LET b == bubbleSort(run.arr, low, high)
                    IN  [arr |-> b.arr,
                         calls |-> run.calls \cup {[low |-> low, high |-> high,
                                                    touched |-> b.touched,
                                                    before |-> run.arr, after |-> b.arr]},
                         panicked |-> b.panicked]
               ELSE LET p == partition(run.arr, low, high)
                    IN  quickSortThreshold(
                            quickSortThreshold([run EXCEPT !.arr = p.arr],
                                               low, p.pivot - 1, threshold),
                            p.pivot + 1, high, threshold)

\* QuickSort.Sort(data, config): the copy of data after quickSort.
QuickSortConfig(data, threshold) ==
    quickSortThreshold([arr |-> data, calls |-> {}, panicked |-> FALSE],
                       0, Len(data) - 1, threshold)

\* BubbleSort.Sort(data, config): config is not used; the loops are those of
\* the first example (lines 181-193 repeat lines 57-69).
BubbleSortConfig(data, threshold) ==
    [arr |-> BubbleSort(data), calls |-> {}, panicked |-> FALSE]

\* sorter.SetStrategy(CreateStrategy(config))
CfgSetStrategy(algorithm) ==
    /\ cfgPanic = "none"
    /\ cfgStrategy' = CreateStrategy(algorithm)
    /\ UNCHANGED <<cfgData, cfgThreshold, cfgResult, cfgBy, cfgCalls, cfgPanic>>
    /\ UNCHANGED NotCfg

\* main: data := []int{...}, the slice every later Sorter.Sort is given
\* (Sort works on a copy, so data stays as it is).
CfgData(data) ==
    /\ cfgPanic = "none"
    /\ cfgBy = "none"
    /\ cfgData = <<>>
    /\ data # <<>>
    /\ cfgData' = data
    /\ UNCHANGED <<cfgStrategy, cfgThreshold, cfgResult, cfgBy, cfgCalls, cfgPanic>>
    /\ UNCHANGED NotCfg

\* Sorter.Sort(data, config) with a strategy set.
CfgSort(threshold) ==
    /\ cfgPanic = "none"
    /\ cfgStrategy # "nil"
    /\ LET run == IF cfgStrategy = "quick" THEN QuickSortConfig(cfgData, threshold)
                                           ELSE BubbleSortConfig(cfgData, threshold)
       IN  /\ cfgCalls' = run.calls
           /\ IF run.panicked
                 THEN /\ cfgPanic' = "index out of range"
                      /\ cfgResult' = <<>>
                      /\ cfgBy' = "none"
                 ELSE /\ cfgResult' = run.arr
                      /\ cfgBy' = cfgStrategy
                      /\ UNCHANGED cfgPanic
    /\ cfgThreshold' = threshold
    /\ UNCHANGED <<cfgStrategy, cfgData>>
    /\ UNCHANGED NotCfg

\* Sorter.Sort when CreateStrategy returned nil: the method call on the nil
\* interface value panics.
CfgSortNil(threshold) ==
    /\ cfgPanic = "none"
    /\ cfgStrategy = "nil"
    /\ cfgPanic' = "nil pointer dereference"
    /\ cfgThreshold' = threshold
    /\ cfgResult' = <<>>
    /\ cfgBy' = "none"
    /\ cfgCalls' = {}
    /\ UNCHANGED <<cfgStrategy, cfgData>>
    /\ UNCHANGED NotCfg

CfgNext ==
    \/ \E algorithm \in Algorithms : CfgSetStrategy(algorithm)
    \/ \E data \in CfgSlices : CfgData(data)
    \/ \E threshold \in Thresholds : CfgSort(threshold)
    \/ \E threshold \in Thresholds : CfgSortNil(threshold)

\* ========================================================================
\* gorm.DB singleton: db.GetInstance (Singleton в Golang.md, lines 287-303).
\* The initialiser panics when gorm.Open fails; the panic leaves once.Do
\* through its deferred calls and reaches the caller of GetInstance, who
\* recovers it or lets it end the process.
\* ========================================================================
DbInit ==
    /\ dbInstance = Nil
    /\ dbOnceDone = 0
    /\ dbOnceM = 0
    /\ dbPc = [g \in Goroutines |-> "idle"]
    /\ dbRet = [g \in Goroutines |-> {}]
    /\ dbCalls = [g \in Goroutines |-> 0]
    /\ dbOpens = 0
    /\ dbFailed = 0
    /\ dbCrashed = FALSE

NotDb == <<onceVars, appleVars, chanVars, sqlVars, gormVars, wsVars, obsVars,
        notifVars, builderVars, restVars, cacheVars, proxyVars, sortVars, kidVars,
        deferVars, cfgVars, reqVars>>

\* A mutation of DoneAfter: a panic of the initialiser leaves done at 0.
DoneAfterUnlessPanic(panicked) == IF panicked THEN 0 ELSE 1

\* once.Do: the deferred o.done.Store(1) runs when the function literal has
\* returned and also when it has panicked.
DoneAfter(panicked) == 1

\* GetInstance is called; once.Do's fast path loads done.
DbDo(g) ==
    /\ ~dbCrashed
    /\ dbPc[g] = "idle"
    /\ dbCalls[g] < MaxCalls
    /\ dbCalls' = [dbCalls EXCEPT ![g] = @ + 1]
    /\ dbPc' = [dbPc EXCEPT ![g] = IF dbOnceDone = 0 THEN "lock" ELSE "return"]
    /\ UNCHANGED <<dbInstance, dbOnceDone, dbOnceM, dbRet, dbOpens, dbFailed, dbCrashed>>
    /\ UNCHANGED NotDb

\* doSlow: o.m.Lock() blocks while another goroutine holds the mutex; done is
\* looked at again under the mutex.
DbLock(g) ==
    /\ ~dbCrashed
    /\ dbPc[g] = "lock"
    /\ dbOnceM = 0
    /\ dbOnceM' = g
    /\ dbPc' = [dbPc EXCEPT ![g] = IF dbOnceDone = 0 THEN "open" ELSE "deferred"]
    /\ UNCHANGED <<dbInstance, dbOnceDone, dbRet, dbCalls, dbOpens, dbFailed, dbCrashed>>
    /\ UNCHANGED NotDb

\* The function literal: db, err := gorm.Open(...); if err != nil { panic(...) };
\* instance = db.
DbOpen(g, ok) ==
    /\ ~dbCrashed
    /\ dbPc[g] = "open"
    /\ dbOpens' = dbOpens + 1
    /\ IF ok
          THEN /\ dbInstance' = dbOpens + 1
               /\ dbPc' = [dbPc EXCEPT ![g] = "stored"]
               /\ UNCHANGED dbFailed
          ELSE /\ dbFailed' = g
               /\ dbPc' = [dbPc EXCEPT ![g] = "unwinding"]
               /\ UNCHANGED dbInstance
    /\ UNCHANGED <<dbOnceDone, dbOnceM, dbRet, dbCalls, dbCrashed>>
    /\ UNCHANGED NotDb

\* The deferred calls of once.Do: o.done.Store(1) if the function literal was
\* run, then o.m.Unlock(); a panic goes on to the caller of GetInstance.
DbDeferred(g) ==
    /\ ~dbCrashed
    /\ dbPc[g] \in {"stored", "unwinding", "deferred"}
    /\ dbOnceDone' = IF dbPc[g] = "deferred" THEN dbOnceDone
                                             ELSE DoneAfter(dbPc[g] = "unwinding")
    /\ dbOnceM' = 0
    /\ dbPc' = [dbPc EXCEPT ![g] = IF dbPc[g] = "unwinding" THEN "panic" ELSE "return"]
    /\ UNCHANGED <<dbInstance, dbRet, dbCalls, dbOpens, dbFailed, dbCrashed>>
    /\ UNCHANGED NotDb

\* return instance
DbReturn(g) ==
    /\ ~dbCrashed
    /\ dbPc[g] = "return"
    /\ dbRet' = [dbRet EXCEPT ![g] = @ \cup {dbInstance}]
    /\ dbPc' = [dbPc EXCEPT ![g] = "idle"]
    /\ UNCHANGED <<dbInstance, dbOnceDone, dbOnceM, dbCalls, dbOpens, dbFailed, dbCrashed>>
    /\ UNCHANGED NotDb

\* The caller of GetInstance recovers the panic and goes on.
DbRecover(g) ==
    /\ ~dbCrashed
    /\ dbPc[g] = "panic"
    /\ dbPc' = [dbPc EXCEPT ![g] = "idle"]
    /\ UNCHANGED <<dbInstance, dbOnceDone, dbOnceM, dbRet, dbCalls, dbOpens, dbFailed,
                   dbCrashed>>
    /\ UNCHANGED NotDb

\* Nothing recovers the panic (main, lines 314-319): the process ends.
DbCrash(g) ==
    /\ ~dbCrashed
    /\ dbPc[g] = "panic"
    /\ dbCrashed' = TRUE
    /\ UNCHANGED <<dbInstance, dbOnceDone, dbOnceM, dbPc, dbRet, dbCalls, dbOpens,
                   dbFailed>>
    /\ UNCHANGED NotDb

DbNext ==
    \/ \E g \in Goroutines : DbDo(g)
    \/ \E g \in Goroutines : DbLock(g)
    \/ \E g \in Goroutines, ok \in BOOLEAN : DbOpen(g, ok)
    \/ \E g \in Goroutines : DbDeferred(g)
    \/ \E g \in Goroutines : DbReturn(g)
    \/ \E g \in Goroutines : DbRecover(g)
    \/ \E g \in Goroutines : DbCrash(g)

\* ========================================================================
\* RequestBuilder (Builder в Golang.md, lines 305-361).  A Go map value is
\* a reference: copying the Request struct copies the reference, not the map.
\* ========================================================================
RequestMethods == {"GET", "POST"}
RequestURLs == {"https://api.example.com/data"}
HeaderKeys == {"Content-Type", "Accept"}
HeaderValues == {"application/json", "text/xml"}
Timeouts == {30}
RequestBodies == {"body"}

\* NewRequestBuilder: Request{Headers: make(map[string]string)}, the other
\* fields at their zero values.
ReqInit ==
    /\ rbMaps = <<<<>>>>
    /\ rbRequest = [Method |-> "", URL |-> "", Headers |-> 1, Timeout |-> 0, Body |-> ""]
    /\ rbBuilt = <<>>
    /\ rbCalls = 0

NotReq == <<onceVars, appleVars, chanVars, sqlVars, gormVars, wsVars, obsVars,
        notifVars, builderVars, restVars, cacheVars, proxyVars, sortVars, kidVars,
        deferVars, cfgVars, dbVars>>

\* A call on the builder that leaves the maps and the returned Requests alone.
SetRequest(request) ==
    /\ rbCalls < MaxRequestCalls
    /\ rbCalls' = rbCalls + 1
    /\ rbRequest' = request
    /\ UNCHANGED <<rbMaps, rbBuilt>>
    /\ UNCHANGED NotReq

\* b.request.Method = method
SetMethod(method) == SetRequest([rbRequest EXCEPT !.Method = method])

\* b.request.URL = url
SetURL(url) == SetRequest([rbRequest EXCEPT !.URL = url])

\* b.request.Headers[key] = value: writes the map the field refers to.
AddHeader(key, value) ==
    /\ rbCalls < MaxRequestCalls
    /\ rbCalls' = rbCalls + 1
    /\ rbMaps' = [rbMaps EXCEPT ![rbRequest.Headers] = MapStore(@, key, value)]
    /\ UNCHANGED <<rbRequest, rbBuilt>>
    /\ UNCHANGED NotReq

\* b.request.Timeout = timeout
SetTimeout(timeout) == SetRequest([rbRequest EXCEPT !.Timeout = timeout])

\* b.request.Body = body
SetBody(body) == SetRequest([rbRequest EXCEPT !.Body = body])

\* A mutation of RequestBuild: the returned Request gets a map of its own.
RequestBuildCopyingMap ==
    /\ rbCalls < MaxRequestCalls
    /\ rbCalls' = rbCalls + 1
    /\ rbMaps' = Append(rbMaps, rbMaps[rbRequest.Headers])
    /\ rbBuilt' = Append(rbBuilt, [request |-> [rbRequest EXCEPT !.Headers = Len(rbMaps) + 1],
                                   headers |-> rbMaps[rbRequest.Headers]])
    /\ UNCHANGED rbRequest
    /\ UNCHANGED NotReq

\* Build: return b.request, a copy of the struct.
RequestBuild ==
    /\ rbCalls < MaxRequestCalls
    /\ rbCalls' = rbCalls + 1
    /\ rbBuilt' = Append(rbBuilt, [request |-> rbRequest,
                                   headers |-> rbMaps[rbRequest.Headers]])
    /\ UNCHANGED <<rbRequest, rbMaps>>
    /\ UNCHANGED NotReq

ReqNext ==
    \/ \E method \in RequestMethods : SetMethod(method)
    \/ \E url \in RequestURLs : SetURL(url)
    \/ \E key \in HeaderKeys, value \in HeaderValues : AddHeader(key, value)
    \/ \E timeout \in Timeouts : SetTimeout(timeout)
    \/ \E body \in RequestBodies : SetBody(body)
    \/ RequestBuild

\* ========================================================================
\* Specifications
\* ========================================================================
Init ==
    /\ OnceInit
    /\ AppleInit
    /\ ChanInit
    /\ SqlInit
    /\ GormInit
    /\ WsInit
    /\ ObsInit
    /\ NotifInit
    /\ BuilderInit
    /\ RestInit
    /\ CacheInit
    /\ ProxyInit
    /\ SortInit
    /\ KidInit
    /\ DeferInit
    /\ CfgInit
    /\ DbInit
    /\ ReqInit

SpecOnce == Init /\ [][OnceNext]_vars
SpecApple == Init /\ [][AppleNext]_vars
SpecChan == Init /\ [][ChanNext]_vars
SpecSql == Init /\ [][SqlNext]_vars
SpecGorm == Init /\ [][GormNext]_vars
SpecWs == Init /\ [][WsNext]_vars
SpecObs == Init /\ [][ObsNext]_vars
SpecNotif == Init /\ [][NotifNext]_vars
SpecBuilder == Init /\ [][BuilderNext]_vars
SpecRest == Init /\ [][RestNext]_vars
SpecCache == Init /\ [][CacheNext]_vars
SpecProxy == Init /\ [][ProxyNext]_vars
SpecSort == Init /\ [][SortNext]_vars
SpecKid == Init /\ [][KidNext]_vars
SpecDefer == Init /\ [][DeferNext]_vars
SpecCfg == Init /\ [][CfgNext]_vars
SpecDb == Init /\ [][DbNext]_vars
SpecReq == Init /\ [][ReqNext]_vars

\* Concurrent calls of transferMoneyWithCheck on a table that already holds
\* an account for each user.
SqlCheckNext ==
    \/ \E c \in Conns, ok \in BOOLEAN, arg \in TransferArgs :
          Begin(c, "transferMoneyWithCheck", arg, ok)
    \/ \E c \in Conns : StatementFails(c)
    \/ \E c \in Conns : SelectForUpdate(c)
    \/ \E c \in Conns : Debit(c)
    \/ \E c \in Conns : Credit(c)
    \/ \E c \in Conns, ok \in BOOLEAN : Commit(c, ok)
    \/ \E c \in Conns : Deferred(c)
    \/ \E c \in Conns : Returned(c)

InitSeeded ==
    /\ OnceInit /\ AppleInit /\ ChanInit /\ SqlSeededInit /\ GormInit /\ WsInit /\ ObsInit
    /\ NotifInit /\ BuilderInit /\ RestInit /\ CacheInit /\ ProxyInit /\ SortInit
    /\ KidInit /\ DeferInit /\ CfgInit /\ DbInit /\ ReqInit

SpecSqlSeeded == InitSeeded /\ [][SqlCheckNext]_vars

\* The chain of responsibility with the running call going on: AskForApple
\* is sequential code, so its next statement is executed.
SpecKidLive ==
    /\ SpecKid
    /\ WF_vars(KidTakes)
    /\ WF_vars(KidForwards)
    /\ WF_vars(KidSilent)

\* The channel-based NewsAgency with the run-time scheduling its goroutines:
\* a goroutine that can receive, or can leave its loop, eventually runs.
SpecChanLive ==
    /\ SpecChan
    /\ WF_vars(ListenReceive)
    /\ WF_vars(ListenExit)
    /\ \A o \in Callbacks : WF_vars(SubscriberReceive(o)) /\ WF_vars(SubscriberExit(o))

\* ========================================================================
\* Claims
\* ========================================================================

\* C1: with the sync.Once singleton, under every interleaving of the
\* goroutines calling GetInstance, the initialisation body runs at most once,
\* it has run once as soon as any call has returned, and every finished call
\* returned the one instance it created, never nil and never a second one.
C1_OnceSingleInstance ==
    /\ onceInits <= 1
    /\ \A g \in Goroutines :
        /\ onceRet[g] \subseteq {1}
        /\ oncePc[g] = "return" => (onceInits = 1 /\ instance = 1)

\* C1 witness: every goroutine has finished all its calls and each got the
\* instance.
C1_Witness ==
    \A g \in Goroutines :
        onceCalls[g] = MaxCalls /\ oncePc[g] = "idle" /\ onceRet[g] = {1}

\* C2: nothing orders a goroutine's nil check and its assignment against the
\* other goroutines: a goroutine that saw nil always allocates a fresh
\* instance and stores it, whatever the variable holds by then; so several
\* instances can be created and handed out (the witness).
C2_AssignAfterStaleCheck ==
    [][\A g \in Callers :
          (applePc[g] = "assign" /\ applePc'[g] = "return")
              => (appleMade' = appleMade + 1 /\ oneApple' = appleMade')]_vars

\* C2 witness: more than one instance was created and two callers returned
\* different instances.
C2_Witness ==
    /\ appleMade > 1
    /\ \E g, h \in Callers :
        \E a \in appleRet[g], b \in appleRet[h] : g # h /\ a # b /\ a # Nil /\ b # Nil

\* C3 (the claim as stated): once every published item has been taken out
\* of the channel, each subscribed callback has been called once for each
\* item published since it subscribed, in publication order.
C3_EveryItemToEverySubscriber ==
    (chanPanic = "none" /\ ~chanClosed /\ subscribers = <<>>)
        => \A o \in Callbacks :
              subPc[o] = "running"
                  => subGot[o] = SubSeq(published, subSince[o] + 1, Len(published))

\* The call of connection c has returned from a transaction it had begun.
SqlReturned(c) == txPc[c] = "returned" /\ txRet[c] # "begin failed"

\* C4: in transferMoney, transferMoneyWithCheck and insertAndGetID, once
\* Begin has succeeded, a call that returns an error has called tx.Rollback,
\* a call whose tx.Commit succeeded has not, every call has ended its
\* transaction with a successful Commit or with a Rollback, and the ended
\* transaction holds no lock and no uncommitted change.
C4_RollbackOnEveryErrorPath ==
    \A c \in Conns :
        SqlReturned(c) =>
            /\ txRet[c] # NoErr => txRollbacks[c] = 1
            /\ txCommitted[c] => (txRollbacks[c] = 0 /\ txRet[c] = NoErr)
            /\ txCommitted[c] \/ txRollbacks[c] = 1
            /\ \A i \in RowIds : rowLock[i] # c
            /\ txDelta[c] = ZeroDelta /\ txInsert[c] = NoRow

\* C4 witness: two calls have returned, one after a statement failed while
\* its transaction held a row lock and was rolled back, one committed.
C4_Witness ==
    \E c, d \in Conns :
        /\ SqlReturned(c) /\ txRet[c] = "statement failed" /\ txRollbacks[c] = 1
        /\ SqlReturned(d) /\ txCommitted[d] /\ txRollbacks[d] = 0
        /\ \E i \in RowIds : accounts[i] # NoRow

\* C5 (the claim as stated): when transferMoney has returned, the debit of
\* amount from fromID is committed exactly if the credit of amount to toID
\* is, and a call that returned an error has committed nothing.
C5_DebitAndCreditTogether ==
    \A c \in Conns :
        (SqlReturned(c) /\ txFn[c] = "transferMoney" /\ txArg[c].fromID # txArg[c].toID) =>
            /\ txRet[c] # NoErr => txEffect[c] = ZeroEffect
            /\ (txEffect[c][txArg[c].fromID] = -txArg[c].amount)
                   <=> (txEffect[c][txArg[c].toID] = txArg[c].amount)

\* C6 (the claim as stated): a committing transferMoneyWithCheck never takes
\* the committed balance of a row of its source account from non-negative to
\* negative, and a call that found the balance below the amount returns the
\* insufficient-funds error, rolled back, with nothing committed.
C6_NoOverdraft ==
    /\ [](\A c \in Conns :
            (SqlReturned(c) /\ txRet[c] = "insufficient funds") =>
                (txRollbacks[c] = 1 /\ ~txCommitted[c] /\ txEffect[c] = ZeroEffect))
    /\ [][\A c \in Conns :
            (txFn[c] = "transferMoneyWithCheck" /\ txPc[c] = "commit" /\ txCommitted'[c]) =>
                \A i \in RowsOf(txArg[c].fromID) :
                    accounts[i].balance >= 0 => accounts'[i].balance >= 0]_vars

\* C7: in the GORM transferMoney, a tx.First or tx.Save that returned an
\* error is followed by exactly one tx.Rollback and no tx.Commit, and the
\* call returns that error; tx.Commit is called at most once, and only after
\* both tx.First and both tx.Save calls have succeeded.
C7_GormRollbackOnFailure ==
    /\ gormCommits <= 1
    /\ gormCommits = 1 =>
          /\ gormOps = <<"firstFrom", "firstTo", "saveFrom", "saveTo">>
          /\ gormFailed = "none"
    /\ (gormPc = "returned" /\ gormFailed # "none") =>
          /\ gormRollbacks = 1
          /\ gormCommits = 0
          /\ gormRet = gormErr /\ gormRet # NoErr
          /\ gormRet \in {"record not found", "call failed"}

\* C7 witness: the call has returned after tx.Save(&toUser), its last call
\* before Commit, returned an error.
C7_Witness ==
    /\ gormPc = "returned"
    /\ gormFailed = "saveTo"
    /\ gormOps = <<"firstFrom", "firstTo", "saveFrom">>
    /\ gormRollbacks = 1

\* Whether sequence a is sequence b with some entries left out.
RECURSIVE IsSubSeq(_, _)
IsSubSeq(a, b) ==
    IF a = <<>> THEN TRUE
    ELSE IF b = <<>> THEN FALSE
    ELSE IF Head(a) = Head(b) THEN IsSubSeq(Tail(a), Tail(b))
    ELSE IsSubSeq(a, Tail(b))

\* C8: the echo handler calls WriteMessage with the type and payload of
\* every message it has read, before it reads the next one, so the replies
\* put on the connection are read messages in the order they were received;
\* once ReadMessage has returned an error the loop has ended and the
\* connection is closed.
C8_EchoInOrder ==
    /\ wsWrites = IF wsPc = "write" THEN SubSeq(wsReads, 1, Len(wsReads) - 1) ELSE wsReads
    /\ wsPc = "write" => (wsReads # <<>> /\ wsMsg = wsReads[Len(wsReads)])
    /\ IsSubSeq(wsSent, wsReads)
    /\ wsReadErr => (wsPc = "done" /\ wsClosed)
    /\ wsClosed => wsReadErr

\* C8 witness: messages of both types have been read and echoed, then a read
\* failed and the connection was closed.
C8_Witness ==
    /\ wsPc = "done" /\ wsClosed
    /\ Len(wsReads) = MaxMessages
    /\ wsSent = wsReads
    /\ \E i, j \in 1..Len(wsReads) : wsReads[i].type # wsReads[j].type

\* The observers the calls of updates went to.
Notified == {updates[i].observer : i \in 1..Len(updates)}

\* C9 (the claim as stated): a SetNews(news) stores news and calls
\* Update(news) exactly once on every registered observer, in the order in
\* which the observers were added.
C9_OncePerObserver ==
    lastOp.op = "SetNews" =>
        /\ agencyNews = lastOp.arg
        /\ \A i \in 1..Len(updates) : updates[i].news = lastOp.arg
        /\ \A i \in 1..Len(observers) :
              Cardinality({k \in 1..Len(updates) : updates[k].observer = observers[i]}) = 1
        /\ \A k \in 1..Len(updates) : \E i \in 1..Len(observers) : observers[i] = updates[k].observer

\* C9 (amended): a SetNews(news) stores news and calls Update(news) once
\* for every entry of the observer list, in list order, so an observer that
\* was added k times gets k calls.
C9_OncePerRegistration ==
    lastOp.op = "SetNews" =>
        /\ agencyNews = lastOp.arg
        /\ Len(updates) = Len(observers)
        /\ \A i \in 1..Len(observers) :
              updates[i] = [observer |-> observers[i], news |-> lastOp.arg]

\* C9 witness: SetNews has run on a full list that holds one observer twice.
C9_Witness ==
    /\ lastOp.op = "SetNews"
    /\ Len(observers) = MaxObservers
    /\ \E o \in Observers : Registrations(observers, o) = 2
    /\ Cardinality(Notified) >= 2

\* C10 (the claim as stated): after RemoveObserver(o), and until o is added
\* again, no SetNews calls Update on o.
C10_RemovedNeverNotified ==
    \A r \in removed : r.observer \notin Notified

\* The index of the first entry of the list that is o.
FirstEntry(list, o) ==
    CHOOSE i \in 1..Len(list) : list[i] = o /\ \A j \in 1..(i - 1) : list[j] # o

\* C10 (amended): RemoveObserver(o) takes out the first entry of the list
\* that is o and nothing else.  An observer that was registered once when it
\* was removed is not in the list and gets no Update from a later SetNews
\* until it is added again; one that was registered k > 1 times stays
\* registered k - 1 times.  The entries of the other observers keep their
\* relative order, and RemoveObserver of an observer that is not registered
\* leaves the list unchanged.
C10_RemoveFirstRegistration ==
    /\ [](\A r \in removed :
            /\ r.registered <= 1 =>
                  (Registrations(observers, r.observer) = 0 /\ r.observer \notin Notified)
            /\ r.registered > 1 =>
                  Registrations(observers, r.observer) = r.registered - 1)
    /\ [][lastOp'.op = "RemoveObserver" =>
            LET o == lastOp'.arg
                Other(x) == x # o
            IN  /\ SelectSeq(observers', Other) = SelectSeq(observers, Other)
                /\ Registrations(observers, o) = 0 => observers' = observers
                /\ Registrations(observers, o) > 0 =>
                      /\ Len(observers') = Len(observers) - 1
                      /\ \A j \in 1..Len(observers') :
                            observers'[j] = IF j < FirstEntry(observers, o)
                                              THEN observers[j] ELSE observers[j + 1]]_vars

\* C10 witness: one observer was removed while registered once, another
\* while registered twice, and a later SetNews has notified the second.
C10_Witness ==
    /\ lastOp.op = "SetNews"
    /\ \E r, q \in removed :
        /\ r.registered = 1 /\ r.observer \notin Notified
        /\ q.registered = 2 /\ q.observer \in Notified

\* C11: in the mutex-guarded NotificationService the bodies of AddSubscriber,
\* RemoveSubscriber and Notify never overlap, whatever the interleaving of
\* the calling goroutines; a Notify prints for no subscriber twice and for
\* no subscriber outside the set, and when its loop has ended it has
\* printed for every subscriber of the set exactly once.
C11_MutualExclusionAndOnce ==
    /\ \A g, h \in Notifiers :
          (nsPc[g] \in {"body", "unlock"} /\ nsPc[h] \in {"body", "unlock"}) => g = h
    /\ \A g \in Notifiers :
          nsOp[g].method = "Notify" /\ nsPc[g] \in {"body", "unlock"} =>
             /\ \A i, j \in 1..Len(nsPrinted[g]) :
                   nsPrinted[g][i] = nsPrinted[g][j] => i = j
             /\ \A i \in 1..Len(nsPrinted[g]) : nsPrinted[g][i] \in nsSubscribers
             /\ nsPc[g] = "unlock" =>
                   nsSubscribers = {nsPrinted[g][i] : i \in 1..Len(nsPrinted[g])}

\* C11 witness: a Notify has printed for both subscribers while another
\* goroutine waits at Lock with a RemoveSubscriber call.
C11_Witness ==
    \E g, h \in Notifiers :
       /\ nsOp[g].method = "Notify" /\ nsPc[g] = "unlock"
       /\ Len(nsPrinted[g]) = 2
       /\ nsOp[h].method = "RemoveSubscriber" /\ nsPc[h] = "lock"

\* The positions of the setter calls of the chain that failed validation.
FailedCalls == {i \in 1..Len(ubChain) : Validate(ubChain[i].setter, ubChain[i].arg) # NoError}

\* The last valid argument the chain passed for a field, or the value
\* NewUserBuilder gave the field.
RECURSIVE LastValid(_, _, _)
LastValid(chain, field, start) ==
    IF chain = <<>> THEN start
    ELSE LET c == chain[Len(chain)]
         IN  IF FieldOf(c.setter) = field /\ Validate(c.setter, c.arg) = NoError
                THEN c.arg
                ELSE LastValid(SubSeq(chain, 1, Len(chain) - 1), field, start)

\* C12: when setters of a chain failed validation, Build returns the error
\* of the first failing setter of the chain.
C12_FirstErrorReturned ==
    (ubPc = "built" /\ FailedCalls # {}) =>
       LET first == CHOOSE i \in FailedCalls : \A j \in FailedCalls : i <= j
       IN  ubResult.err = Validate(ubChain[first].setter, ubChain[first].arg)

\* C13: Build returns the zero User and a non-nil error when any setter call
\* of the chain failed validation, whatever valid calls followed it, and
\* otherwise the accumulated User (each field the last argument passed for
\* it) with a nil error.
C13_ZeroUserOnAnyFailure ==
    ubPc = "built" =>
       IF FailedCalls # {}
          THEN ubResult.user = ZeroUser /\ ubResult.err # NoError
          ELSE /\ ubResult.err = NoError
               /\ ubResult.user =
                     [f \in DOMAIN ZeroUser |->
                        LastValid(ubChain, f, IF f = "CreatedAt" THEN "now" ELSE ZeroUser[f])]

\* C13 witness: Build after a chain whose first call failed and whose
\* later calls were valid.
C13_Witness ==
    /\ ubPc = "built"
    /\ Len(ubChain) = 3
    /\ FailedCalls = {1}
    /\ ubResult.user = ZeroUser
    /\ ubUser.Age = 25

\* A user is stored under id: the last write to users[id] was a POST or a PUT.
Stored(id) == restLast[id].op \in {"POST", "PUT"}

\* Goroutine h, serving the given method on /users/{id} with an id, takes the
\* step that looks id up in the map.
LooksUp(h, method) ==
    /\ restPc[h] = "handle" /\ restPc'[h] # "handle"
    /\ restReq[h].route = "/users/" /\ restReq[h].method = method
    /\ restReq[h].id # ""

\* C14: a GET or DELETE of /users/{id} is answered 404 exactly when no user
\* is stored under id (none was ever written, or the last write was a
\* DELETE, so every GET after a DELETE is answered 404 until a POST or PUT
\* stores the id again); otherwise GET is answered 200, and DELETE removes
\* the entry and is answered 204.
C14_NotFoundExactlyWhenAbsent ==
    [][\A h \in Handlers :
         /\ LooksUp(h, "GET") =>
               IF Stored(restReq[h].id)
                  THEN restResp'[h].status = StatusOK
                  ELSE restResp'[h].status = StatusNotFound
         /\ LooksUp(h, "DELETE") =>
               IF Stored(restReq[h].id)
                  THEN restPc'[h] = "delete"
                  ELSE restPc'[h] = "idle" /\ restResp'[h].status = StatusNotFound
         /\ (restPc[h] = "delete" /\ restPc'[h] = "idle") =>
               /\ restResp'[h].status = StatusNoContent
               /\ ~Exists(users', restReq[h].id)
               /\ ~Stored(restReq[h].id)']_vars

\* C14 witness: a user was created, a DELETE of its id was answered 204 and
\* the GET of the same id accepted after it was answered 404.
C14_Witness ==
    \E g, h \in Handlers :
       /\ restReq[g].method = "DELETE" /\ restReq[g].id = "1" /\ restReq[g].n = 2
       /\ restPc[g] = "idle" /\ restResp[g].status = StatusNoContent
       /\ restReq[h].method = "GET" /\ restReq[h].route = "/users/"
       /\ restReq[h].id = "1" /\ restReq[h].n = 3
       /\ restPc[h] = "idle" /\ restResp[h].status = StatusNotFound

\* C15: while the last write to users[X] is the POST that created the user
\* whose id is X, a GET of "/users/" followed by X is answered 200 with that
\* user, for every X.
C15_CreatedUserIsServed ==
    [][\A h \in Handlers :
         ( /\ restPc[h] = "handle" /\ restPc'[h] = "idle"
           /\ restReq[h].route = "/users/" /\ restReq[h].method = "GET"
           /\ restLast[restReq[h].id].op = "POST" ) =>
            /\ restResp'[h].status = StatusOK
            /\ restResp'[h].user = restLast[restReq[h].id].user]_vars

\* C16: once a Get(url) has returned a nil error, every later Get(url)
\* returns that same response with a nil error and does not call the wrapped
\* client; while no Get(url) has succeeded (none was made, or all failed),
\* Get(url) calls the wrapped client.
C16_ServedFromCache ==
    [][\A url \in Urls :
         (cacheGets' = cacheGets + 1 /\ cacheRet'.url = url) =>
            IF cacheOk[url] # Nil
               THEN /\ cacheRet'.resp = cacheOk[url]
                    /\ cacheRet'.err = "nil"
                    /\ clientCalls' = clientCalls
               ELSE clientCalls'[url] = clientCalls[url] + 1]_vars

\* C16 witness: a Get failed, the next Get of the url called the client
\* again and succeeded, and a third Get returned the cached response.
C16_Witness ==
    \E url \in Urls :
       /\ clientCalls[url] = 2
       /\ cacheGets = 3
       /\ cacheRet = [url |-> url, resp |-> cacheOk[url], err |-> "nil"]
       /\ cacheOk[url] # Nil
       /\ \A other \in Urls \ {url} : clientCalls[other] = 0

\* The Image values a proxy has allocated.
ImagesOf(p) == {i \in 1..Len(imagesMade) : imagesMade[i] = p}

\* C17: over any sequence of Display calls on one ImageProxy the real Image
\* is created, and the loading message printed, exactly once, by the first
\* call: none before it, one after any number of calls; and every call
\* returns the Display of that image.
C17_LoadedOnceOnFirstCall ==
    \A p \in Proxies :
       IF displayCalls[p] = 0
          THEN ImagesOf(p) = {} /\ loadings[p] = 0 /\ realImage[p] = NilImage
          ELSE /\ Cardinality(ImagesOf(p)) = 1
               /\ loadings[p] = 1
               /\ realImage[p].ptr \in ImagesOf(p)
               /\ displayRet[p] = ImageDisplay(proxyName[p])

\* C17 witness: a proxy's Display has been called three times.
C17_Witness ==
    \E p \in Proxies :
       /\ displayCalls[p] = 3
       /\ loadings[p] = 1
       /\ displayRet[p] = ImageDisplay("photo.jpg")

\* How many times v occurs in the slice.
Occurrences(arr, v) == Cardinality({i \in 1..Len(arr) : arr[i] = v})

\* result is data put in ascending order.
IsSortedPermutation(result, data) ==
    /\ Len(result) = Len(data)
    /\ \A i \in 1..Len(result) - 1 : result[i] <= result[i + 1]
    /\ \A v \in SortValues : Occurrences(result, v) = Occurrences(data, v)

\* C18: BubbleSort.Sort and QuickSort.Sort each return an ascending-sorted
\* permutation of their input, so the two strategies give the same result
\* for the same data, whichever the Sorter was switched to.
C18_StrategiesSortAlike ==
    /\ \A s \in Strategies :
          sortedBy[s].done => IsSortedPermutation(sortedBy[s].result, sortedBy[s].data)
    /\ ( /\ sortedBy["BubbleSort"].done /\ sortedBy["QuickSort"].done
         /\ sortedBy["BubbleSort"].data = sortedBy["QuickSort"].data )
          => sortedBy["BubbleSort"].result = sortedBy["QuickSort"].result

\* C18 witness: the same unsorted data with a repeated value was sorted with
\* BubbleSort, then, after SetStrategy, with QuickSort.
C18_Witness ==
    /\ strategy = "QuickSort"
    /\ sortedBy["BubbleSort"].done /\ sortedBy["QuickSort"].done
    /\ sortedBy["BubbleSort"].data = <<2, -1, 2>>
    /\ sortedBy["QuickSort"].data = <<2, -1, 2>>
    /\ sortResult = <<-1, 2, 2>>

\* C19: the request goes along the chain in order: every kid asked before
\* the last one is not named Маша, has printed that it declines and has
\* passed the request to its own nextKid; a kid named Маша that is asked
\* takes the apple and is the last kid asked; and the request stops at a kid
\* that is not Маша only where the chain ends.
C19_PassedAlongUntilHandled ==
    /\ \A i \in 1..Len(asked) - 1 :
          /\ kidName[asked[i]] # "Masha"
          /\ kidOut[i] = [kid |-> asked[i], says |-> "declines"]
          /\ asked[i + 1] = nextKid[asked[i]]
    /\ kidPhase = "done" =>
          LET last == asked[Len(asked)]
          IN  IF kidName[last] = "Masha"
                 THEN /\ Len(kidOut) = Len(asked)
                      /\ kidOut[Len(asked)] = [kid |-> last, says |-> "wants"]
                 ELSE /\ nextKid[last] = Nil
                      /\ Len(kidOut) = Len(asked) - 1

\* C19 witness: the chain of main: two kids declined in turn and the third,
\* Маша, took the apple, while another Маша further on was never asked.
C19_Witness ==
    /\ kidPhase = "done"
    /\ Len(asked) = 2
    /\ kidName[asked[1]] = "Vasya"
    /\ kidName[asked[2]] = "Masha"
    /\ nextKid[asked[2]] # Nil
    /\ kidName[nextKid[asked[2]]] = "Masha"
    /\ nextKid[asked[2]] # asked[2]
    /\ kidOut[2].says = "wants"

\* C20: the deferred closure runs after return and before the caller gets
\* the result, so the caller receives the named result as the closure left
\* it: getValue returns 15 and process returns 20; the argument of a
\* deferred call is evaluated at the defer statement, so tricky returns 0
\* although i is 10 when the call runs.  While deferred calls are pending
\* the caller has received nothing.
C20_DeferredClosureSetsResult ==
    /\ [](/\ dfRet["getValue"].done => dfRet["getValue"].value = 15
          /\ dfRet["process"].done => dfRet["process"].value = 20
          /\ dfRet["tricky"].done => dfRet["tricky"].value = 0
          /\ (dfFn = "tricky" /\ dfPc = 0) => dfI = 10)
    /\ [][dfRet' # dfRet => dfPc = 0 /\ dfStack = <<>>]_vars

\* C20 witness: main has called getValue, process and tricky.
C20_Witness ==
    /\ dfRet["getValue"] = [done |-> TRUE, value |-> 15]
    /\ dfRet["process"] = [done |-> TRUE, value |-> 20]
    /\ dfRet["tricky"] = [done |-> TRUE, value |-> 0]
    /\ dfFn = "none"

\* The elements of arr at the Go indices low..high, in order.
Segment(arr, low, high) == [k \in 1..(high - low + 1) |-> arr[low + k]]

\* C21: QuickSort.Sort with any Threshold returns an ascending-sorted
\* permutation of its input and does not panic; bubbleSort is called for the
\* sub-ranges with high-low < threshold, touches no index outside low..high,
\* leaves the elements outside the range as they were and leaves the range
\* itself an ascending-sorted permutation of what it held.
C21_ThresholdQuickSortSorts ==
    /\ cfgPanic # "index out of range"
    /\ cfgBy = "quick" =>
          /\ IsSortedPermutation(cfgResult, cfgData)
          /\ \A c \in cfgCalls :
                /\ 0 <= c.low /\ c.low < c.high /\ c.high <= Len(cfgData) - 1
                /\ c.high - c.low < cfgThreshold
                /\ c.touched \subseteq c.low..c.high
                /\ \A k \in 0..Len(cfgData) - 1 :
                      k \notin c.low..c.high => At(c.after, k) = At(c.before, k)
                /\ IsSortedPermutation(Segment(c.after, c.low, c.high),
                                       Segment(c.before, c.low, c.high))

\* C21 witness: a slice of four elements was sorted by QuickSort with a
\* threshold below its length, and bubbleSort put a sub-range that does not
\* start at index 0 in order.
C21_Witness ==
    /\ cfgBy = "quick"
    /\ Len(cfgData) = 4
    /\ cfgThreshold = 3
    /\ cfgResult # cfgData
    /\ \E c \in cfgCalls : c.low = 1 /\ c.high = 3 /\ c.after # c.before

\* C22: every entry of the users map is stored under the key equal to its
\* own ID field, whichever of POST /users (key: the id of the body) and
\* PUT /users/{id} (the id of the path replaces the id of the body) stored it.
C22_KeyIsOwnId ==
    \A k \in DOMAIN users : users[k].ID = k

\* C22 witness: the map holds an entry a POST stored under the empty id of
\* its body and an entry a PUT stored under the id of its path.
C22_Witness ==
    /\ DOMAIN users = {"", "1"}
    /\ restLast[""].op = "POST"
    /\ restLast["1"].op = "PUT"
    /\ users["1"].Name = "Bob"

\* A step of the handler running on goroutine h.
HandlerStep(h) ==
    \/ usersHandlerGet(h) \/ usersHandlerPost(h) \/ usersHandlerDefault(h)
    \/ userHandlerNoId(h) \/ userHandlerGet(h) \/ userHandlerPut(h)
    \/ userHandlerDeleteCheck(h) \/ userHandlerDelete(h) \/ userHandlerDefault(h)

\* C23: the handlers take no lock around users: a handler that has been
\* started can always take its next step, whatever the other handlers are
\* doing, so two of them can be at the map together (the witness).
C23_NoHandlerEverWaits ==
    \A h \in Handlers :
        (~restFatal /\ restPc[h] # "idle") => ENABLED HandlerStep(h)

\* C23 witness: two POST requests are being served and both handlers are
\* about to write users.
C23_Witness ==
    \E g, h \in Handlers :
        /\ g # h
        /\ ~restFatal
        /\ restReq[g].method = "POST" /\ restReq[h].method = "POST"
        /\ AboutToWrite(g) /\ AboutToWrite(h)

\* C24: a call of the GORM transferMoney in which a panic occurred between
\* Begin and the return of Commit has been rolled back once by the deferred
\* function, has committed nothing and has returned a nil error.
C24_PanicReturnsNil ==
    (gormPanic /\ gormPc \in {"returned", "idle"}) =>
        /\ gormRet = NoErr
        /\ gormRollbacks = 1
        /\ ~gormCommitted
        /\ gormSaved = GormNoneSaved

\* C24 witness: the call panicked after it had saved the debited row; the
\* row was rolled back and the caller received nil.
C24_Witness ==
    /\ gormPc = "returned"
    /\ gormPanic
    /\ gormOps = <<"firstFrom", "firstTo", "saveFrom">>
    /\ gormRollbacks = 1
    /\ gormRet = NoErr
    /\ gormUsers[gormArg.fromID] = <<2>>

\* C25: close(n.subscribers) is final and nothing looks for it: once the
\* channel is closed it stays closed, every SetNews after that panics with
\* a send on a closed channel and every further Unsubscribe panics with a
\* close of a closed channel.
C25_UseAfterClosePanics ==
    [][chanClosed =>
          /\ chanClosed'
          /\ \A news \in NewsItems :
                SetNews(news) => chanPanic' = "send on closed channel"
          /\ Unsubscribe => chanPanic' = "close of closed channel"]_vars

\* C25 witness: both callbacks were subscribed to the one channel,
\* Unsubscribe closed it and the next SetNews panicked.
C25_Witness ==
    /\ chanClosed
    /\ \A o \in Callbacks : subPc[o] # "none"
    /\ chanPanic = "send on closed channel"

\* The goroutines ranging over the channel have all left their loops.
AllLoopsLeft ==
    /\ listenPc = "exited"
    /\ \A o \in Callbacks : subPc[o] # "running"

\* C26: no goroutine leaves its range loop while the channel is open; once
\* Unsubscribe has closed it, the buffered items are taken and the listen
\* goroutine and every Subscribe goroutine leave their loops (unless a panic,
\* a later SetNews or Unsubscribe, ends the whole process first).
C26_LoopsEndOnlyAfterClose ==
    /\ []((listenPc = "exited" \/ \E o \in Callbacks : subPc[o] = "exited") => chanClosed)
    /\ (chanClosed ~> (AllLoopsLeft \/ chanPanic # "none"))

\* C26 witness: an item was published and the channel closed; a Subscribe
\* goroutine was given the item, and then listen and both Subscribe
\* goroutines ended.
C26_Witness ==
    /\ chanClosed
    /\ chanPanic = "none"
    /\ listenPc = "exited"
    /\ \A o \in Callbacks : subPc[o] = "exited"
    /\ subscribers = <<>>
    /\ published # <<>>
    /\ \E o \in Callbacks : subGot[o] = published

\* C27: gorm.Open is called at most once; when it failed, the initialiser
\* panicked, once.done is 1 as soon as the panic has left once.Do, instance
\* stays nil, and every GetInstance call that returns, returns nil.
C27_FailedInitNeverRetried ==
    /\ dbOpens <= 1
    /\ dbFailed # 0 =>
          /\ dbInstance = Nil
          /\ dbPc[dbFailed] # "unwinding" => dbOnceDone = 1
          /\ \A g \in Goroutines : dbPc[g] # "open" /\ dbRet[g] \subseteq {Nil}

\* C27 witness: gorm.Open failed in the first call, the caller recovered the
\* panic and called again, and that call and a call of another goroutine
\* returned nil without gorm.Open being called a second time.
C27_Witness ==
    /\ ~dbCrashed
    /\ dbFailed # 0
    /\ dbOpens = 1
    /\ dbRet[dbFailed] = {Nil}
    /\ \E g \in Goroutines : g # dbFailed /\ dbRet[g] = {Nil}

\* C28: every Request that Build returned refers to the very map the builder
\* writes, so an AddHeader after Build shows in the Headers of that Request;
\* its Method, URL, Timeout and Body, and the map it refers to, are changed
\* by no later call.
C28_HeadersSharedScalarsCopied ==
    /\ [](\A i \in 1..Len(rbBuilt) : rbBuilt[i].request.Headers = rbRequest.Headers)
    /\ [][/\ \A i \in 1..Len(rbBuilt) : rbBuilt'[i] = rbBuilt[i]
          /\ \A key \in HeaderKeys, value \in HeaderValues :
                AddHeader(key, value) =>
                    \A i \in 1..Len(rbBuilt) :
                        rbMaps'[rbBuilt[i].request.Headers][key] = value]_vars

\* C28 witness: after Build, AddHeader and SetMethod were called on the
\* builder: the returned Request now has a header it was built without, and
\* still has the Method it was built with.
C28_Witness ==
    /\ Len(rbBuilt) = 1
    /\ rbBuilt[1].headers = <<>>
    /\ rbMaps[rbBuilt[1].request.Headers] # <<>>
    /\ rbBuilt[1].request.Method = "GET"
    /\ rbRequest.Method = "POST"

\* The rows the statement connection c is about to run has to lock.
RowsNeeded(c) ==
    CASE txPc[c] \in {"select", "debit"} -> RowsOf(txArg[c].fromID)
      [] txPc[c] = "credit" -> RowsOf(txArg[c].toID)
      [] OTHER -> {}

\* The transaction of c waits for a row lock the transaction of d holds.
WaitsFor(c, d) == \E i \in RowsNeeded(c) : rowLock[i] = d

\* C29: the source rows are locked first and the destination rows second,
\* whatever the ids: when two transactions wait for each other, each holds
\* rows of its source only, wants the rows of its destination, the two
\* transfers go in opposite directions, and neither UPDATE can run.
C29_OppositeTransfersLockCycle ==
    \A c, d \in Conns :
        (c # d /\ WaitsFor(c, d) /\ WaitsFor(d, c)) =>
            /\ txPc[c] = "credit" /\ txPc[d] = "credit"
            /\ txArg[c].fromID = txArg[d].toID
            /\ txArg[c].toID = txArg[d].fromID
            /\ \A i \in RowIds : rowLock[i] = c => accounts[i].user_id = txArg[c].fromID
            /\ ~ENABLED Credit(c)
            /\ ~ENABLED Credit(d)

\* C29 witness: two transferMoneyWithCheck calls, from user 1 to user 2 and
\* from user 2 to user 1, have each locked and debited their source row and
\* each wait for the row the other holds.
C29_Witness ==
    /\ txFn["c1"] = "transferMoneyWithCheck" /\ txFn["c2"] = "transferMoneyWithCheck"
    /\ txArg["c1"].fromID = 1 /\ txArg["c1"].toID = 2
    /\ txArg["c2"].fromID = 2 /\ txArg["c2"].toID = 1
    /\ WaitsFor("c1", "c2") /\ WaitsFor("c2", "c1")

\* Following nextKid from kid k ends at nil within n steps.
RECURSIVE ChainEnds(_, _)
ChainEnds(k, n) ==
    IF k = Nil THEN TRUE
    ELSE IF n = 0 THEN FALSE
    ELSE ChainEnds(nextKid[k], n - 1)

\* The chain of the kid that was asked first has no cycle.
AcyclicChain == asked # <<>> /\ ChainEnds(asked[1], Cardinality(Kids))

\* C30: on a chain without a cycle no kid is asked twice and AskForApple
\* returns; when the request came to the end of the chain without meeting a
\* Маша, the output holds the refusals of the kids before the last one and
\* nothing else: the last kid printed nothing and nothing tells the caller
\* that the apple was not taken.
C30_TerminatesAndDropsSilently ==
    /\ [](AcyclicChain =>
             \A i, j \in 1..Len(asked) : asked[i] = asked[j] => i = j)
    /\ []((kidPhase = "done" /\ \A i \in 1..Len(asked) : kidName[asked[i]] # "Masha") =>
             /\ nextKid[asked[Len(asked)]] = Nil
             /\ Len(kidOut) = Len(asked) - 1
             /\ \A i \in 1..Len(kidOut) :
                   kidOut[i] = [kid |-> asked[i], says |-> "declines"])
    /\ ((kidPhase = "asking" /\ AcyclicChain) ~> kidPhase = "done")

\* C30 witness: a chain of three kids, none of them Маша, was asked from its
\* first kid: two refusals were printed and the call returned.
C30_Witness ==
    /\ kidPhase = "done"
    /\ Len(asked) = 3
    /\ \A k \in Kids : kidName[k] \in {"Vasya", "Petya"}
    /\ nextKid[asked[3]] = Nil
    /\ Len(kidOut) = 2

====
